---- MODULE Spec2Model ----
(***************************************************************************)
(* Entitlement reconciliation of lullibee-premium-api.                     *)
(*                                                                         *)
(* The repository holds two gateway webhook handlers and two client        *)
(* confirmation handlers, all writing the same two Firestore collections   *)
(* (payments/{reference} and users/{uid}), and two expiry sweep tasks:     *)
(*                                                                         *)
(*   WebhookTx     src/api/paystack/webhook.js   transaction, from NOW     *)
(*   WebhookPlain  src/unnamed/part_000          plain reads and writes    *)
(*   ConfirmPlain  src/api/paystack/confirm.js   plain reads and writes    *)
(*   ConfirmTx     src/unnamed/part_001          transaction, from NOW     *)
(*   ExpireTask    src/api/tasks/expire.js       three passes              *)
(*   ExpireLegacy  src/unnamed/part_008          one pass                  *)
(*                                                                         *)
(* A request handler is a process that advances one await at a time, so    *)
(* that handlers interleave at exactly the points where the JavaScript     *)
(* event loop and the store let them. Time is counted in ticks of          *)
(* MsPerTick milliseconds (one day), which keeps 30 days inside TLC's      *)
(* integers; every duration in the code is a whole number of days.         *)
(***************************************************************************)
EXTENDS Integers, Sequences, FiniteSets, TLC

VARIABLES
    now,        \* Date.now(), in ticks
    users,      \* Firestore collection users/{uid}
    payments,   \* Firestore collection payments/{reference}
    traces,     \* number of documents in webhook_traces
    procs,      \* the request handlers in flight, one per slot
    nreq,       \* requests accepted so far (bounds the run)
    applied,    \* history: entitlement writes per reference and account
    lastMut,    \* history: the last entitlement write
    firstAt,    \* history: nowMs of the first entitlement write per account
    prev,       \* history (sequential runs): the request completed before
    snap        \* history (sequential runs): the store when the request began

vars == <<now, users, payments, traces, procs, nreq, applied, lastMut, firstAt, prev, snap>>

----------------------------------------------------------------------------
(* Bounds of the model *)

NProcs == 2         \* request slots: handlers that may run at the same time
MaxReq == 2         \* requests accepted in one run
MaxTicks == 2       \* clock advances in one run
MaxPage == 2        \* largest page size of a sweep short of the program's own

(* Program constants *)

MsPerTick == 86400000
DayMs == (24 * 60 * 60 * 1000) \div MsPerTick
DefaultDays == 30
pageSize == 300

(* The clock starts positive and advances by ClockStep ticks at a time:    *)
(* less than one default extension, so that an entitlement can be seen     *)
(* both still active and lapsed.                                           *)
Now0 == 1
ClockStep == 20

Absent == -1        \* a field that is undefined / missing in a document
NoUid == "nouid"
NoRef == "noref"
NoEmail == "noemail"

Uids == {"u1", "u2", "u3"}
Callers == {"u1", "u2"}     \* the accounts that requests name
Refs == {"r1", "r2"}
Emails == {"e1"}
Procs == 1..NProcs

Max(a, b) == IF a > b THEN a ELSE b

(* JavaScript coercions used by the handlers *)
Truthy(v) == v # Absent /\ v # 0          \* x || y on a number-or-undefined
Num(v) == IF v = Absent THEN 0 ELSE v     \* Number(x || 0)

----------------------------------------------------------------------------
(* Documents *)

(* users/{uid}.premium, the map the subscription handlers write.  stamp is  *)
(* TRUE when expiresAt holds a Firestore Timestamp rather than a number;   *)
(* null and a missing field both stand at Absent.                          *)
NoPremium == [active |-> "absent", expiresAt |-> Absent, stamp |-> FALSE,
              expiryTimeMillis |-> Absent]

NoUser == [exists |-> FALSE, plan |-> "none", premiumSince |-> Absent,
           premiumExpiry |-> Absent, lastPaymentRef |-> NoRef, source |-> "none",
           email |-> NoEmail, premium |-> NoPremium]

NoPayment == [exists |-> FALSE, uid |-> NoUid, status |-> "none", source |-> "none",
              processed |-> FALSE, reason |-> "none"]

(* users/{uid} as the client app leaves it at sign-up: a profile with an   *)
(* email and no premium fields.                                            *)
Profile(e) == [NoUser EXCEPT !.exists = TRUE, !.email = e]

----------------------------------------------------------------------------
(* Requests.  One record shape serves the four gateway handlers: a webhook *)
(* reads sigOk, event, status, reference, uid (data.metadata.uid), email   *)
(* (data.customer.email), days and months (data.metadata); a confirmation  *)
(* reads uid, reference, days, months of its body and the gateway's answer *)
(* to transaction/verify (verifyOk).  reference stands for the first       *)
(* non-empty of data.reference, data.subscription_code and data.id.        *)

(* What a subscription verification request carries and what the billing  *)
(* service answers to it: token (a purchaseToken is there), product (the   *)
(* productId: "none", "sku" for lullibee_premium_monthly, "other"), callOk *)
(* (the get call returns), expiry (the reported expiry in ticks, Absent    *)
(* when there is none), fmt (how the expiry is written: "millis" for a     *)
(* string of digits, "rfc3339" for a date string), state (the v2           *)
(* subscriptionState), purchaseState (v1), productOk (products.get reports *)
(* a purchase) and ackOk (the acknowledge call returns).                   *)
NoPlay == [token |-> FALSE, product |-> "none", callOk |-> FALSE, expiry |-> Absent,
           fmt |-> "millis", state |-> "none", purchaseState |-> Absent,
           productOk |-> FALSE, ackOk |-> FALSE]

(* what a trigger of the sweeper carries: is CRON_SECRET set in the        *)
(* environment, and the x-cron-secret header and the secret query          *)
(* parameter, each missing ("none"), equal to it ("match") or not          *)
NoCron == [needSecret |-> FALSE, header |-> "none", query |-> "none"]

Req(sig, ev, st, ref, uid, em, d, m, v) ==
    [sigOk |-> sig, event |-> ev, status |-> st, reference |-> ref, uid |-> uid,
     email |-> em, days |-> d, months |-> m, verifyOk |-> v, play |-> NoPlay,
     cron |-> NoCron]

NoReq == Req(FALSE, "none", "none", NoRef, NoUid, NoEmail, Absent, Absent, FALSE)

CronReq(needSecret, header, query) ==
    [NoReq EXCEPT !.cron = [needSecret |-> needSecret, header |-> header,
                            query |-> query]]

CronInputs ==
    { CronReq(TRUE, "match", "none"), CronReq(TRUE, "other", "match"),
      CronReq(TRUE, "other", "other"), CronReq(TRUE, "none", "none"),
      CronReq(FALSE, "none", "none") }

PlayReq(uid, product, callOk, expiry, fmt, state, purchaseState, productOk, ackOk) ==
    [NoReq EXCEPT !.uid = uid,
                  !.play = [token |-> TRUE, product |-> product, callOk |-> callOk,
                            expiry |-> expiry, fmt |-> fmt, state |-> state,
                            purchaseState |-> purchaseState, productOk |-> productOk,
                            ackOk |-> ackOk]]

WebhookInputs ==
    \* authentic success events carrying the account in their metadata
    { Req(TRUE, "charge.success", "success", "r1", u, NoEmail, Absent, Absent, FALSE) :
        u \in Callers }
    \* ... asking for 60 days
    \cup { Req(TRUE, "charge.success", "success", "r2", "u1", NoEmail, 60, Absent, FALSE) }
    \* a non-success event reusing a reference
    \cup { Req(TRUE, "charge.failed", "failed", r, "u1", NoEmail, Absent, Absent, FALSE) :
             r \in Refs }
    \* an event type neither handler lists, its data.status "success"
    \cup { Req(TRUE, "transfer.success", "success", "r1", "u1", NoEmail, Absent, Absent, FALSE) }
    \* a success type of webhook.js that part_000 does not list
    \cup { Req(TRUE, "subscription.create", "none", "r1", "u1", NoEmail, Absent, Absent, FALSE) }
    \* ... with a day count below zero next to a month count
    \cup { Req(TRUE, "charge.success", "success", "r1", "u1", NoEmail, -2, 2, FALSE) }
    \* an account in the metadata and the contact email of another account
    \cup { Req(TRUE, "charge.success", "success", "r1", "u2", "e1", Absent, Absent, FALSE) }
    \* no account in the metadata: with and without a contact email
    \cup { Req(TRUE, "charge.success", "success", "r1", NoUid, e, Absent, Absent, FALSE) :
             e \in Emails \cup {NoEmail} }
    \* no reference
    \cup { Req(TRUE, "charge.success", "success", NoRef, "u1", NoEmail, Absent, Absent, FALSE) }
    \* bad signature
    \cup { Req(FALSE, "charge.success", "success", "r1", "u1", NoEmail, Absent, Absent, FALSE) }

ConfirmInputs ==
    { Req(TRUE, "none", "none", "r1", u, NoEmail, Absent, Absent, TRUE) : u \in Callers }
    \cup { Req(TRUE, "none", "none", "r2", "u1", NoEmail, 60, Absent, TRUE) }
    \cup { Req(TRUE, "none", "none", "r1", "u1", NoEmail, Absent, 2, TRUE) }
    \cup { Req(TRUE, "none", "none", "r1", "u1", NoEmail, 0, Absent, TRUE) }
    \cup { Req(TRUE, "none", "none", "r1", "u1", NoEmail, Absent, Absent, FALSE) }
    \cup { Req(TRUE, "none", "none", NoRef, "u1", NoEmail, Absent, Absent, TRUE) }

(* The requests of the parallel runs: the deliveries that can race for one *)
(* account and reference, a second reference, a second account, a          *)
(* non-success event and an event resolved by its contact email.           *)
RaceWebhookInputs ==
    { Req(TRUE, "charge.success", "success", r, "u1", NoEmail, Absent, Absent, FALSE) :
        r \in Refs }
    \cup { Req(TRUE, "charge.failed", "failed", "r1", "u1", NoEmail, Absent, Absent, FALSE),
           Req(TRUE, "charge.success", "success", "r1", NoUid, "e1", Absent, Absent, FALSE) }

RaceConfirmInputs ==
    { Req(TRUE, "none", "none", "r1", u, NoEmail, Absent, Absent, TRUE) : u \in Callers }
    \cup { Req(TRUE, "none", "none", "r2", "u1", NoEmail, 60, Absent, TRUE) }

(* The subscription verification requests, by the handler they go to: an  *)
(* expiry before and after the first clock step, written as digits or as   *)
(* a date; each subscription state; a purchase that is not in state 0; a   *)
(* request without uid or productId; a call that throws; a token that is a *)
(* one-time product.                                                       *)
PlayExpiries == {11, 41}

PlayInputs(kind) ==
    CASE kind = "PlayEdge" ->
           { PlayReq("u1", "sku", TRUE, e, "millis", "ACTIVE", Absent, FALSE, TRUE) :
               e \in PlayExpiries \cup {Absent} }
           \cup { PlayReq("u1", "sku", TRUE, 41, "rfc3339", "ACTIVE", Absent, FALSE, TRUE),
                  PlayReq("u1", "sku", TRUE, 41, "millis", "ACTIVE", Absent, FALSE, FALSE),
                  PlayReq("u1", "sku", FALSE, Absent, "millis", "none", Absent, FALSE, TRUE) }
      [] kind = "PlayNode" ->
           { PlayReq("u1", "sku", TRUE, e, "millis", "none", 0, FALSE, TRUE) :
               e \in PlayExpiries }
           \cup { PlayReq("u1", "sku", TRUE, 41, "millis", "none", 1, FALSE, TRUE),
                  PlayReq("u1", "sku", TRUE, 41, "millis", "none", 0, FALSE, FALSE),
                  PlayReq(NoUid, "sku", TRUE, 41, "millis", "none", 0, FALSE, TRUE),
                  PlayReq("u1", "other", TRUE, 41, "millis", "none", 0, FALSE, TRUE) }
      [] kind = "PlayV2" ->
           { PlayReq("u1", "sku", TRUE, e, "rfc3339", st, Absent, FALSE, TRUE) :
               e \in PlayExpiries, st \in {"ACTIVE", "CANCELED"} }
           \cup { PlayReq("u1", "sku", TRUE, 11, "rfc3339", "EXPIRED", Absent, FALSE, TRUE),
                  PlayReq("u1", "sku", TRUE, 41, "rfc3339", "IN_GRACE_PERIOD", Absent, FALSE, FALSE),
                  PlayReq("u1", "sku", FALSE, Absent, "millis", "none", Absent, TRUE, TRUE),
                  PlayReq("u1", "sku", FALSE, Absent, "millis", "none", Absent, FALSE, TRUE) }
      [] OTHER ->
           { PlayReq("u1", "sku", TRUE, e, "millis", "none", 0, FALSE, TRUE) :
               e \in PlayExpiries }
           \cup { PlayReq("u1", "none", TRUE, 41, "millis", "none", 0, FALSE, TRUE),
                  PlayReq("u1", "sku", TRUE, 41, "millis", "none", 0, FALSE, FALSE) }

(* ... and those of the parallel runs: a renewal and a lapse for u1 *)
RacePlayInputs(kind) ==
    CASE kind = "PlayV2" ->
           { PlayReq("u1", "sku", TRUE, 41, "rfc3339", "ACTIVE", Absent, FALSE, TRUE) }
      [] kind = "PlayEdge" ->
           { PlayReq("u1", "sku", TRUE, 11, "millis", "ACTIVE", Absent, FALSE, TRUE) }
      [] OTHER ->
           { PlayReq("u1", "sku", TRUE, 41, "millis", "none", 0, FALSE, TRUE) }

(* A handler in flight: its request, its position and its local variables. *)
NoRun == [pass |-> 0, last |-> [v |-> Absent, u |-> NoUid], page |-> <<>>, size |-> 0,
          processed |-> 0, downgrades |-> 0, at |-> 0]

IdleProc ==
    [kind |-> "none", pc |-> "idle", req |-> NoReq, reference |-> NoRef, uid |-> NoUid,
     nowMs |-> 0,
     extendDays |-> 0, newExpiryMs |-> 0, paySnap |-> NoPayment, userSnap |-> NoUser,
     alreadyProcessed |-> FALSE, isActive |-> FALSE, expiryMs |-> Absent,
     wrote |-> FALSE, acked |-> "none", run |-> NoRun, code |-> 0, ok |-> FALSE, outcome |-> "none", nmut |-> 0]

(* The reference as it would be with String(data?.id) for its last        *)
(* alternative, which is never empty: the key every event without a        *)
(* reference then shares stands at "r1".                                   *)
ExtractReference_Undefined(req) == IF req.reference = NoRef THEN "r1" ELSE req.reference

(* const reference = data?.reference || data?.subscription_code ||        *)
(* String(data?.id || ""): the request's reference field stands for the    *)
(* first non-empty of the three, NoRef for the empty string that is left   *)
(* when there is none.                                                     *)
ExtractReference(req) == req.reference

Begin(kind, req, pc) ==
    [IdleProc EXCEPT !.kind = kind, !.req = req, !.pc = pc,
                     !.reference = IF kind \in {"WebhookTx", "WebhookPlain"}
                                   THEN ExtractReference(req) ELSE req.reference]

(* res.status(code).json({ok, ...}): the handler is over; what it answered *)
(* and what it applied stay on record, its snapshots go.                   *)
Respond(pr, code, ok, outcome) ==
    [IdleProc EXCEPT !.kind = pr.kind, !.req = pr.req, !.pc = "done",
                     !.extendDays = pr.extendDays, !.newExpiryMs = pr.newExpiryMs,
                     !.alreadyProcessed = pr.alreadyProcessed,
                     !.isActive = pr.isActive, !.expiryMs = pr.expiryMs,
                     !.wrote = pr.wrote, !.acked = pr.acked, !.run = pr.run,
                     !.code = code, !.ok = ok, !.outcome = outcome, !.nmut = pr.nmut]

(* A request takes the lowest free slot (the slots are interchangeable). *)
Free(p) ==
    /\ procs[p].pc \in {"idle", "done"}
    /\ \A q \in 1..(p - 1) : procs[q].pc \notin {"idle", "done"}
    /\ nreq < MaxReq

NoMut == [kind |-> "none", reference |-> NoRef, uid |-> NoUid, prevExpiry |-> Absent,
          nowMs |-> 0, extendDays |-> 0, newExpiry |-> 0, prevSince |-> Absent,
          newSince |-> Absent]

(* History of an entitlement write of handler pr to users/{uid}. *)
Record(pr, uid, since) ==
    /\ applied' = [applied EXCEPT ![pr.reference][uid] = @ + 1]
    /\ lastMut' = [kind |-> pr.kind, reference |-> pr.reference, uid |-> uid,
                   prevExpiry |-> users[uid].premiumExpiry, nowMs |-> pr.nowMs,
                   extendDays |-> pr.extendDays, newExpiry |-> pr.newExpiryMs,
                   prevSince |-> users[uid].premiumSince, newSince |-> since]
    /\ firstAt' = IF firstAt[uid] = 0 THEN [firstAt EXCEPT ![uid] = pr.nowMs] ELSE firstAt

NoRecord == UNCHANGED <<applied, lastMut, firstAt>>

(* History of the requests: a request that is accepted remembers the one   *)
(* its slot answered before and the store as it is now.                    *)
Opened(p) ==
    /\ prev' = procs[p]
    /\ snap' = [users |-> users, payments |-> payments, swept |-> FALSE]

SameHistory == UNCHANGED <<prev, snap>>

(* ... and a sweep leaves its mark on it. *)
Swept == prev' = prev /\ snap' = [snap EXCEPT !.swept = TRUE]

----------------------------------------------------------------------------
(* The store.  A transaction commits only if the documents it read are as  *)
(* it read them; otherwise the store runs the callback again.              *)

(* The guard as it would be if the processed flag were never looked at. *)
IsProcessed_NoGuard(paySnap) == FALSE

IsProcessed(paySnap) == paySnap.exists /\ paySnap.processed

TxValid(pr) ==
    /\ payments[pr.reference] = pr.paySnap
    /\ users[pr.uid] = pr.userSnap

(* The activation as it would be if it were only ever copied from the      *)
(* stored one.                                                             *)
KeepSince_StoredOnly(current, nowMs) == current.premiumSince

(* premiumSince: current?.premiumSince || nowMs *)
KeepSince(current, nowMs) ==
    IF Truthy(current.premiumSince) THEN current.premiumSince ELSE nowMs

(* email: current?.email || data?.customer?.email || null *)
KeepEmail(current, email) == IF current.email # NoEmail THEN current.email ELSE email

----------------------------------------------------------------------------
(* src/api/paystack/webhook.js *)

successEvents ==
    {"charge.success", "subscription.create", "subscription.enable",
     "invoice.payment_success"}

WebhookTx_Start(p, req) ==
    /\ Free(p)
    /\ nreq' = nreq + 1
    /\ LET pr == Begin("WebhookTx", req, "wt_getPay") IN
       procs' = [procs EXCEPT ![p] =
          IF ~req.sigOk THEN Respond(pr, 200, FALSE, "bad_signature")
          ELSE IF req.event \notin successEvents THEN Respond(pr, 200, TRUE, "skipped")
          ELSE IF req.uid = NoUid \/ pr.reference = NoRef
               THEN Respond(pr, 200, FALSE, "missing_uid_or_ref")
          ELSE [pr EXCEPT !.uid = req.uid]]
    /\ UNCHANGED <<now, users, payments, traces>>
    /\ NoRecord
    /\ Opened(p)

WebhookTx_GetPay(p) ==
    LET pr == procs[p] IN
    /\ pr.pc = "wt_getPay"
    /\ LET s == payments[pr.reference] IN
       procs' = [procs EXCEPT ![p] =
          IF IsProcessed(s)
          THEN Respond([pr EXCEPT !.alreadyProcessed = TRUE], 200, TRUE, "already")
          ELSE [pr EXCEPT !.paySnap = s, !.nowMs = now, !.extendDays = DefaultDays,
                          !.newExpiryMs = now + DefaultDays * DayMs,
                          !.pc = "wt_getUser"]]
    /\ UNCHANGED <<now, users, payments, traces, nreq>>
    /\ NoRecord
    /\ SameHistory

WebhookTx_GetUser(p) ==
    LET pr == procs[p] IN
    /\ pr.pc = "wt_getUser"
    /\ procs' = [procs EXCEPT ![p] = [pr EXCEPT !.userSnap = users[pr.uid], !.pc = "wt_commit"]]
    /\ UNCHANGED <<now, users, payments, traces, nreq>>
    /\ NoRecord
    /\ SameHistory

TxUserDoc(pr) ==
    [users[pr.uid] EXCEPT
        !.exists = TRUE, !.plan = "premium",
        !.premiumSince = KeepSince(pr.userSnap, pr.nowMs),
        !.premiumExpiry = pr.newExpiryMs,
        !.lastPaymentRef = pr.reference, !.source = "paystack",
        !.email = KeepEmail(pr.userSnap, pr.req.email)]

WebhookTx_PayDoc(pr) ==
    [payments[pr.reference] EXCEPT
        !.exists = TRUE, !.uid = pr.uid, !.status = "success", !.source = "webhook",
        !.processed = TRUE]

WebhookTx_Commit(p) ==
    LET pr == procs[p] IN
    /\ pr.pc = "wt_commit"
    /\ TxValid(pr)
    /\ users' = [users EXCEPT ![pr.uid] = TxUserDoc(pr)]
    /\ payments' = [payments EXCEPT ![pr.reference] = WebhookTx_PayDoc(pr)]
    /\ Record(pr, pr.uid, KeepSince(pr.userSnap, pr.nowMs))
    /\ procs' = [procs EXCEPT ![p] = Respond([pr EXCEPT !.nmut = @ + 1], 200, TRUE, "applied")]
    /\ UNCHANGED <<now, traces, nreq>>
    /\ SameHistory

WebhookTx_Retry(p) ==
    LET pr == procs[p] IN
    /\ pr.pc = "wt_commit"
    /\ ~TxValid(pr)
    /\ procs' = [procs EXCEPT ![p] =
                   [pr EXCEPT !.pc = "wt_getPay", !.paySnap = NoPayment, !.userSnap = NoUser]]
    /\ UNCHANGED <<now, users, payments, traces, nreq>>
    /\ NoRecord
    /\ SameHistory

----------------------------------------------------------------------------
(* src/unnamed/part_000: the webhook handler without a transaction *)

isSuccess(req) ==
    \/ req.event = "charge.success"
    \/ req.event = "invoice.payment_success"
    \/ req.status = "success"

(* (Number.isFinite(+md.days) && +md.days) ||                              *)
(* (Number.isFinite(+md.months) && +md.months * 30); 0 stands for false    *)
daysFromMeta(d, m) ==
    IF d # Absent /\ d # 0 THEN d
    ELSE IF m # Absent THEN m * 30
    ELSE 0

WebhookPlain_extendDays(req) ==
    LET v == daysFromMeta(req.days, req.months) IN
    IF v > 0 THEN v ELSE DefaultDays

(* base + extendDays * 24 * 60 * 60 * 1000, base the later of the stored   *)
(* expiry and nowMs                                                        *)
ExtendFromMax(userData, nowMs, extendDays) ==
    LET currentExpiryMs == Num(userData.premiumExpiry)
        base == IF currentExpiryMs > nowMs THEN currentExpiryMs ELSE nowMs
    IN base + extendDays * DayMs

UidOrder == <<"u1", "u2", "u3">>

(* db.collection("users").where("email", "==", email).limit(1): the first  *)
(* match in document-id order, NoUid when the query is empty               *)
LookupByEmail(email) ==
    LET hit == {i \in 1..Len(UidOrder) :
                  users[UidOrder[i]].exists /\ users[UidOrder[i]].email = email}
    IN IF hit = {} THEN NoUid
       ELSE UidOrder[CHOOSE i \in hit : \A j \in hit : i <= j]

(* webhook_traces.add(...) is the handler's first store call, made before   *)
(* the signature is looked at; then the signature and classification checks *)
WebhookPlain_Start(p, req) ==
    /\ Free(p)
    /\ nreq' = nreq + 1
    /\ traces' = traces + 1
    /\ LET pr == Begin("WebhookPlain", req, "wp_guard") IN
       procs' = [procs EXCEPT ![p] =
          IF ~req.sigOk THEN Respond(pr, 200, FALSE, "bad_signature")
          ELSE IF ~isSuccess(req)
               THEN IF pr.reference # NoRef THEN [pr EXCEPT !.pc = "wp_ignore"]
                    ELSE Respond(pr, 200, TRUE, "skipped")
          ELSE IF pr.reference = NoRef THEN Respond(pr, 200, FALSE, "no_reference")
          ELSE pr]
    /\ UNCHANGED <<now, users, payments>>
    /\ NoRecord
    /\ Opened(p)

(* ... or that first store call throws: the catch answers *)
WebhookPlain_TraceFail(p, req) ==
    /\ Free(p)
    /\ nreq' = nreq + 1
    /\ procs' = [procs EXCEPT ![p] =
          Respond(Begin("WebhookPlain", req, "wp_guard"), 200, FALSE, "error")]
    /\ UNCHANGED <<now, users, payments, traces>>
    /\ NoRecord
    /\ Opened(p)

WebhookPlain_IgnoredDoc(pr) ==
    [payments[pr.reference] EXCEPT
        !.exists = TRUE,
        !.status = IF pr.req.status = "none" THEN "unknown" ELSE pr.req.status,
        !.processed = FALSE]

(* a non-success event with a reference: payments/{reference} merge *)
WebhookPlain_Ignore(p) ==
    LET pr == procs[p] IN
    /\ pr.pc = "wp_ignore"
    /\ payments' = [payments EXCEPT ![pr.reference] = WebhookPlain_IgnoredDoc(pr)]
    /\ procs' = [procs EXCEPT ![p] = Respond(pr, 200, TRUE, "skipped")]
    /\ UNCHANGED <<now, users, traces, nreq>>
    /\ NoRecord
    /\ SameHistory

IsProcessedStrict(paySnap) == paySnap.exists /\ paySnap.processed = TRUE

(* The resolution as it would be if every event went to the first account. *)
WebhookPlain_Resolved_First(pr, uid) ==
    [pr EXCEPT !.uid = UidOrder[1], !.extendDays = WebhookPlain_extendDays(pr.req),
               !.nowMs = now, !.pc = "wp_readUser"]

(* after the account is known: extendDays, nowMs = Date.now() *)
WebhookPlain_Resolved(pr, uid) ==
    [pr EXCEPT !.uid = uid, !.extendDays = WebhookPlain_extendDays(pr.req),
               !.nowMs = now, !.pc = "wp_readUser"]

(* the idempotency guard: payRef.get() *)
WebhookPlain_Guard(p) ==
    LET pr == procs[p]
        req == pr.req
    IN
    /\ pr.pc = "wp_guard"
    /\ procs' = [procs EXCEPT ![p] =
          IF IsProcessedStrict(payments[pr.reference])
          THEN Respond([pr EXCEPT !.alreadyProcessed = TRUE], 200, TRUE, "already")
          ELSE IF req.uid # NoUid THEN WebhookPlain_Resolved(pr, req.uid)
          ELSE IF req.email # NoEmail THEN [pr EXCEPT !.pc = "wp_lookup"]
          ELSE [pr EXCEPT !.pc = "wp_nouid"]]
    /\ UNCHANGED <<now, users, payments, traces, nreq>>
    /\ NoRecord
    /\ SameHistory

WebhookPlain_Lookup(p) ==
    LET pr == procs[p]
        uid == LookupByEmail(pr.req.email)
    IN
    /\ pr.pc = "wp_lookup"
    /\ procs' = [procs EXCEPT ![p] =
          IF uid # NoUid THEN WebhookPlain_Resolved(pr, uid)
          ELSE [pr EXCEPT !.pc = "wp_nouid"]]
    /\ UNCHANGED <<now, users, payments, traces, nreq>>
    /\ NoRecord
    /\ SameHistory

WebhookPlain_NoUidDoc(pr) ==
    [payments[pr.reference] EXCEPT
        !.exists = TRUE,
        !.status = IF pr.req.status = "none" THEN "success" ELSE pr.req.status,
        !.processed = FALSE, !.reason = "no-uid"]

WebhookPlain_NoUid(p) ==
    LET pr == procs[p] IN
    /\ pr.pc = "wp_nouid"
    /\ payments' = [payments EXCEPT ![pr.reference] = WebhookPlain_NoUidDoc(pr)]
    /\ procs' = [procs EXCEPT ![p] = Respond(pr, 200, FALSE, "no_uid")]
    /\ UNCHANGED <<now, users, traces, nreq>>
    /\ NoRecord
    /\ SameHistory

(* userRef.get(), then newExpiryMs from what was read *)
WebhookPlain_ReadUser(p) ==
    LET pr == procs[p]
        userData == users[pr.uid]
    IN
    /\ pr.pc = "wp_readUser"
    /\ procs' = [procs EXCEPT ![p] =
          [pr EXCEPT !.userSnap = userData,
                     !.newExpiryMs = ExtendFromMax(userData, pr.nowMs, pr.extendDays),
                     !.pc = "wp_writePay"]]
    /\ UNCHANGED <<now, users, payments, traces, nreq>>
    /\ NoRecord
    /\ SameHistory

WebhookPlain_PayDoc(pr) ==
    [payments[pr.reference] EXCEPT
        !.exists = TRUE, !.uid = pr.uid,
        !.status = IF pr.req.status = "none" THEN "success" ELSE pr.req.status,
        !.processed = TRUE]

WebhookPlain_WritePay(p) ==
    LET pr == procs[p] IN
    /\ pr.pc = "wp_writePay"
    /\ payments' = [payments EXCEPT ![pr.reference] = WebhookPlain_PayDoc(pr)]
    /\ procs' = [procs EXCEPT ![p] = [pr EXCEPT !.pc = "wp_writeUser"]]
    /\ UNCHANGED <<now, users, traces, nreq>>
    /\ NoRecord
    /\ SameHistory

(* userRef.set({...}, {merge: true}) from the userData read earlier *)
PlainUserDoc(pr) ==
    [users[pr.uid] EXCEPT
        !.exists = TRUE,
        !.email = KeepEmail(pr.userSnap, pr.req.email),
        !.plan = "premium",
        !.premiumSince = KeepSince(pr.userSnap, pr.nowMs),
        !.premiumExpiry = pr.newExpiryMs,
        !.lastPaymentRef = pr.reference, !.source = "paystack"]

WebhookPlain_WriteUser(p) ==
    LET pr == procs[p] IN
    /\ pr.pc = "wp_writeUser"
    /\ users' = [users EXCEPT ![pr.uid] = PlainUserDoc(pr)]
    /\ Record(pr, pr.uid, KeepSince(pr.userSnap, pr.nowMs))
    /\ procs' = [procs EXCEPT ![p] = Respond([pr EXCEPT !.nmut = @ + 1], 200, TRUE, "applied")]
    /\ UNCHANGED <<now, payments, traces, nreq>>
    /\ SameHistory

----------------------------------------------------------------------------
(* src/api/paystack/confirm.js: the confirmation handler without a         *)
(* transaction                                                             *)

(* Number.isFinite(viaDays) ? Math.max(1, viaDays)                         *)
(*   : Number.isFinite(viaMonths) ? Math.max(1, viaMonths) : 30            *)
Confirm_extendDays(req) ==
    IF req.days # Absent THEN Max(1, req.days)
    ELSE IF req.months # Absent THEN Max(1, req.months * 30)
    ELSE DefaultDays

(* The gateway's answer as it would be taken if it were not looked at. *)
Verified_Unchecked(req) == TRUE

(* !(!verify?.status || verify?.data?.status !== "success") *)
Verified(req) == req.verifyOk

(* body check, fetch(transaction/verify), extendDays, nowMs = Date.now():  *)
(* nothing of the store is read before nowMs is taken                      *)
ConfirmPlain_Start(p, req) ==
    /\ Free(p)
    /\ nreq' = nreq + 1
    /\ LET pr == Begin("ConfirmPlain", req, "cp_readUser") IN
       procs' = [procs EXCEPT ![p] =
          IF req.uid = NoUid \/ pr.reference = NoRef
          THEN Respond(pr, 400, FALSE, "bad_request")
          ELSE IF ~Verified(req) THEN Respond(pr, 400, FALSE, "not_verified")
          ELSE [pr EXCEPT !.uid = req.uid, !.extendDays = Confirm_extendDays(req),
                          !.nowMs = now]]
    /\ UNCHANGED <<now, users, payments, traces>>
    /\ NoRecord
    /\ Opened(p)

ConfirmPlain_ReadUser(p) ==
    LET pr == procs[p]
        userData == users[pr.uid]
    IN
    /\ pr.pc = "cp_readUser"
    /\ procs' = [procs EXCEPT ![p] =
          [pr EXCEPT !.userSnap = userData,
                     !.newExpiryMs = ExtendFromMax(userData, pr.nowMs, pr.extendDays),
                     !.pc = "cp_writePay"]]
    /\ UNCHANGED <<now, users, payments, traces, nreq>>
    /\ NoRecord
    /\ SameHistory

ConfirmPlain_PayDoc(pr) ==
    [payments[pr.reference] EXCEPT
        !.exists = TRUE, !.uid = pr.uid, !.status = "success",
        !.source = "client-confirm", !.processed = TRUE]

ConfirmPlain_WritePay(p) ==
    LET pr == procs[p] IN
    /\ pr.pc = "cp_writePay"
    /\ payments' = [payments EXCEPT ![pr.reference] = ConfirmPlain_PayDoc(pr)]
    /\ procs' = [procs EXCEPT ![p] = [pr EXCEPT !.pc = "cp_writeUser"]]
    /\ UNCHANGED <<now, users, traces, nreq>>
    /\ NoRecord
    /\ SameHistory

ConfirmPlain_WriteUser(p) ==
    LET pr == procs[p] IN
    /\ pr.pc = "cp_writeUser"
    /\ users' = [users EXCEPT ![pr.uid] = PlainUserDoc(pr)]
    /\ Record(pr, pr.uid, KeepSince(pr.userSnap, pr.nowMs))
    /\ procs' = [procs EXCEPT ![p] = Respond([pr EXCEPT !.nmut = @ + 1], 200, TRUE, "applied")]
    /\ UNCHANGED <<now, payments, traces, nreq>>
    /\ SameHistory

----------------------------------------------------------------------------
(* src/unnamed/part_001: the confirmation handler with a transaction *)

(* body check, fetch(transaction/verify); nowMs and newExpiryMs are fixed  *)
(* here, before the transaction, and are not taken again when the store    *)
(* retries it                                                              *)
ConfirmTx_Start(p, req) ==
    /\ Free(p)
    /\ nreq' = nreq + 1
    /\ LET pr == Begin("ConfirmTx", req, "ct_getPay")
           extendDays == Confirm_extendDays(req)
       IN
       procs' = [procs EXCEPT ![p] =
          IF req.uid = NoUid \/ pr.reference = NoRef
          THEN Respond(pr, 400, FALSE, "bad_request")
          ELSE IF ~Verified(req) THEN Respond(pr, 400, FALSE, "not_verified")
          ELSE [pr EXCEPT !.uid = req.uid, !.extendDays = extendDays, !.nowMs = now,
                          !.newExpiryMs = now + extendDays * DayMs]]
    /\ UNCHANGED <<now, users, payments, traces>>
    /\ NoRecord
    /\ Opened(p)

ConfirmTx_GetPay(p) ==
    LET pr == procs[p]
        s == payments[pr.reference]
    IN
    /\ pr.pc = "ct_getPay"
    /\ procs' = [procs EXCEPT ![p] =
          IF IsProcessed(s)
          THEN Respond([pr EXCEPT !.alreadyProcessed = TRUE], 200, TRUE, "already")
          ELSE [pr EXCEPT !.paySnap = s, !.pc = "ct_getUser"]]
    /\ UNCHANGED <<now, users, payments, traces, nreq>>
    /\ NoRecord
    /\ SameHistory

ConfirmTx_GetUser(p) ==
    LET pr == procs[p] IN
    /\ pr.pc = "ct_getUser"
    /\ procs' = [procs EXCEPT ![p] = [pr EXCEPT !.userSnap = users[pr.uid], !.pc = "ct_commit"]]
    /\ UNCHANGED <<now, users, payments, traces, nreq>>
    /\ NoRecord
    /\ SameHistory

ConfirmTx_PayDoc(pr) ==
    [payments[pr.reference] EXCEPT
        !.exists = TRUE, !.uid = pr.uid, !.status = "success",
        !.source = "client-confirm", !.processed = TRUE]

ConfirmTx_Commit(p) ==
    LET pr == procs[p] IN
    /\ pr.pc = "ct_commit"
    /\ TxValid(pr)
    /\ users' = [users EXCEPT ![pr.uid] = TxUserDoc(pr)]
    /\ payments' = [payments EXCEPT ![pr.reference] = ConfirmTx_PayDoc(pr)]
    /\ Record(pr, pr.uid, KeepSince(pr.userSnap, pr.nowMs))
    /\ procs' = [procs EXCEPT ![p] = Respond([pr EXCEPT !.nmut = @ + 1], 200, TRUE, "applied")]
    /\ UNCHANGED <<now, traces, nreq>>
    /\ SameHistory

ConfirmTx_Retry(p) ==
    LET pr == procs[p] IN
    /\ pr.pc = "ct_commit"
    /\ ~TxValid(pr)
    /\ procs' = [procs EXCEPT ![p] =
                   [pr EXCEPT !.pc = "ct_getPay", !.paySnap = NoPayment, !.userSnap = NoUser]]
    /\ UNCHANGED <<now, users, payments, traces, nreq>>
    /\ NoRecord
    /\ SameHistory

----------------------------------------------------------------------------
(* The subscription verification handlers.  Each one validates its body,   *)
(* asks the billing service, decides whether the subscription is active,   *)
(* acknowledges it when it is (a failing acknowledge call is caught and    *)
(* logged), and writes users/{uid}.premium with one set(..., {merge:true}).*)
(* The environment names a package and no ALLOWED_SKU_PREFIX.              *)

(* Number(v || 0): a string of digits gives its number, a date string NaN  *)
(* (which stands at Absent), nothing gives 0                               *)
NumberOf(play) ==
    IF play.expiry = Absent THEN 0
    ELSE IF play.fmt = "millis" THEN play.expiry
    ELSE Absent

(* part_005 toMs(v): null for nothing, Number(v) when it is finite, else   *)
(* Date.parse(v)                                                           *)
toMs(play) == IF play.expiry = Absent \/ play.expiry = 0 THEN Absent ELSE play.expiry

(* x || null and x ? f(x) : null, for x a number or NaN *)
OrNull(x) == IF x = Absent \/ x = 0 THEN Absent ELSE x

(* x || 0 *)
OrZero(x) == IF x = Absent THEN 0 ELSE x

BoolStr(b) == IF b THEN "true" ELSE "false"

PlayWrite(p, premium) ==
    LET pr == procs[p] IN
    /\ users' = [users EXCEPT ![pr.uid] = [@ EXCEPT !.exists = TRUE, !.premium = premium]]
    /\ procs' = [procs EXCEPT ![p] =
                   Respond([pr EXCEPT !.wrote = TRUE], 200, TRUE, "verified")]
    /\ UNCHANGED <<now, payments, traces, nreq>>
    /\ NoRecord
    /\ SameHistory

(* The acknowledgement as it would be if its failure were not caught. *)
Acknowledge_Throws(pr, attempt, play) ==
    IF attempt /\ ~play.ackOk
    THEN Respond([pr EXCEPT !.acked = "failed"], 500, FALSE, "error")
    ELSE [pr EXCEPT !.acked = IF attempt THEN "ok" ELSE "none"]

(* try { await ...subscriptions.acknowledge(...) } catch (e) { log }: the   *)
(* call is made when the handler's condition holds (for the v1 handlers,   *)
(* when the purchase is also still unacknowledged); its failure is logged  *)
(* and the handler goes on                                                 *)
Acknowledge(pr, attempt, play) ==
    [pr EXCEPT !.acked = IF ~attempt THEN "none"
                         ELSE IF play.ackOk THEN "ok" ELSE "failed"]

PlayAccept(p, after) ==
    /\ nreq' = nreq + 1
    /\ procs' = [procs EXCEPT ![p] = after]
    /\ UNCHANGED <<now, users, payments, traces>>
    /\ NoRecord
    /\ Opened(p)

(* src/api/play/verify-subscription.js l.1-139 (edge runtime):             *)
(* purchases.subscriptionsv2.get, active = expiryMs is finite and > now    *)
PlayEdge_Start(p, req) ==
    LET pr == Begin("PlayEdge", req, "pe_write")
        expiryMs == NumberOf(req.play)
        active == expiryMs # Absent /\ expiryMs > now
    IN
    /\ Free(p)
    /\ PlayAccept(p,
          IF req.uid = NoUid \/ ~req.play.token THEN Respond(pr, 400, FALSE, "bad_request")
          ELSE IF ~req.play.callOk THEN Respond(pr, 500, FALSE, "error")
          ELSE Acknowledge([pr EXCEPT !.uid = req.uid, !.nowMs = now,
                                      !.expiryMs = expiryMs, !.isActive = active],
                           active /\ req.play.product # "none", req.play))

PlayEdge_Premium(pr) ==
    [users[pr.uid].premium EXCEPT
        !.active = BoolStr(pr.isActive),
        !.expiresAt = OrNull(pr.expiryMs), !.stamp = OrNull(pr.expiryMs) # Absent,
        !.expiryTimeMillis = OrNull(pr.expiryMs)]

PlayEdge_Write(p) ==
    /\ procs[p].pc = "pe_write"
    /\ PlayWrite(p, PlayEdge_Premium(procs[p]))

(* src/api/play/verify-subscription.js l.141-365 (node runtime):           *)
(* purchases.subscriptions.get, isActive = expiryTimeMillis > nowMs and    *)
(* purchaseState === 0; the write happens only for a uid                   *)
PlayNode_Start(p, req) ==
    LET pr == Begin("PlayNode", req, "pn_write")
        expiryTimeMillis == OrZero(NumberOf(req.play))
        isActive == expiryTimeMillis > now /\ req.play.purchaseState = 0
        got == [pr EXCEPT !.uid = req.uid, !.nowMs = now, !.expiryMs = expiryTimeMillis,
                          !.isActive = isActive]
    IN
    /\ Free(p)
    /\ PlayAccept(p,
          IF req.play.product # "sku" \/ ~req.play.token
          THEN Respond(pr, 400, FALSE, "bad_request")
          ELSE IF ~req.play.callOk THEN Respond(pr, 500, FALSE, "error")
          ELSE IF req.uid = NoUid
               THEN Respond(Acknowledge(got, isActive, req.play), 200, TRUE, "verified")
          ELSE Acknowledge(got, isActive, req.play))

PlayNode_Premium(pr) ==
    [users[pr.uid].premium EXCEPT
        !.active = BoolStr(pr.isActive),
        !.expiresAt = OrZero(pr.expiryMs), !.stamp = FALSE,
        !.expiryTimeMillis = OrZero(pr.expiryMs)]

PlayNode_Write(p) ==
    /\ procs[p].pc = "pn_write"
    /\ PlayWrite(p, PlayNode_Premium(procs[p]))

(* src/unnamed/part_005: purchases.subscriptionsv2.get, active by the      *)
(* subscription state; a token that is no active subscription is tried as  *)
(* a one-time product; 402 when neither                                    *)
PlayV2_active(play, nowMs) ==
    /\ play.callOk
    /\ \/ play.state \in {"ACTIVE", "IN_GRACE_PERIOD"}
       \/ play.state = "CANCELED" /\ toMs(play) # Absent /\ toMs(play) > nowMs

PlayV2_product(play) == play.product # "none" /\ play.productOk

PlayV2_Start(p, req) ==
    LET pr == Begin("PlayV2", req, "pv_write")
        sub == PlayV2_active(req.play, now)
        active == sub \/ PlayV2_product(req.play)
        expiryMs == IF sub /\ req.play.callOk THEN toMs(req.play) ELSE Absent
    IN
    /\ Free(p)
    /\ PlayAccept(p,
          IF req.uid = NoUid \/ ~req.play.token THEN Respond(pr, 400, FALSE, "bad_request")
          ELSE IF ~active THEN Respond(pr, 402, FALSE, "not_active")
          ELSE Acknowledge([pr EXCEPT !.uid = req.uid, !.nowMs = now,
                                      !.expiryMs = expiryMs, !.isActive = TRUE],
                           sub /\ req.play.product # "none", req.play))

PlayV2_Premium(pr) ==
    [users[pr.uid].premium EXCEPT
        !.active = "true",
        !.expiresAt = OrNull(pr.expiryMs), !.stamp = OrNull(pr.expiryMs) # Absent,
        !.expiryTimeMillis = OrNull(pr.expiryMs)]

PlayV2_Write(p) ==
    /\ procs[p].pc = "pv_write"
    /\ PlayWrite(p, PlayV2_Premium(procs[p]))

(* src/unnamed/part_006: purchases.subscriptions.get, isActive = expiryMs  *)
(* > now and purchaseState is '0'; premium.expiresAt is not written        *)
PlayLegacy_Start(p, req) ==
    LET pr == Begin("PlayLegacy", req, "pl_write")
        expiryMs == OrZero(NumberOf(req.play))
        isActive == expiryMs > now /\ req.play.purchaseState = 0
        got == [pr EXCEPT !.uid = req.uid, !.nowMs = now, !.expiryMs = expiryMs, !.isActive = isActive]
    IN
    /\ Free(p)
    /\ PlayAccept(p,
          IF req.play.product = "none" \/ ~req.play.token
          THEN Respond(pr, 400, FALSE, "bad_request")
          ELSE IF ~req.play.callOk THEN Respond(pr, 500, FALSE, "error")
          ELSE IF req.uid = NoUid
               THEN Respond(Acknowledge(got, isActive, req.play), 200, TRUE, "verified")
          ELSE Acknowledge(got, isActive, req.play))

PlayLegacy_Premium(pr) ==
    [users[pr.uid].premium EXCEPT
        !.active = BoolStr(pr.isActive),
        !.expiryTimeMillis = OrNull(pr.expiryMs)]

PlayLegacy_Write(p) ==
    /\ procs[p].pc = "pl_write"
    /\ PlayWrite(p, PlayLegacy_Premium(procs[p]))

(* The write throws.  verify-subscription.js (edge) and part_005 answer    *)
(* from their catch; the node handler and part_006 catch it around the     *)
(* write, log it, and answer 200 with firestore.updated = false.           *)
PlayWriteFail(p) ==
    LET pr == procs[p] IN
    /\ pr.pc \in {"pe_write", "pn_write", "pv_write", "pl_write"}
    /\ procs' = [procs EXCEPT ![p] =
          IF pr.pc \in {"pn_write", "pl_write"} THEN Respond(pr, 200, TRUE, "verified")
          ELSE Respond(pr, 500, FALSE, "error")]
    /\ UNCHANGED <<now, users, payments, traces, nreq>>
    /\ NoRecord
    /\ SameHistory

----------------------------------------------------------------------------
(* A store or gateway call that throws or times out: the handler's catch   *)
(* answers and nothing more is written.  A transaction that has not        *)
(* committed leaves nothing behind.                                        *)

AwaitPcs ==
    {"wt_getPay", "wt_getUser", "wt_commit",
     "wp_ignore", "wp_guard", "wp_lookup", "wp_nouid", "wp_readUser",
     "wp_writePay", "wp_writeUser",
     "cp_readUser", "cp_writePay", "cp_writeUser",
     "ct_getPay", "ct_getUser", "ct_commit"}

(* The catch as it would be if no handler kept its failures at 200. *)
IsWebhook_None(kind) == FALSE

IsWebhook(kind) == kind \in {"WebhookTx", "WebhookPlain"}

Fail(p) ==
    LET pr == procs[p] IN
    /\ pr.pc \in AwaitPcs
    /\ procs' = [procs EXCEPT ![p] =
          IF IsWebhook(pr.kind) THEN Respond(pr, 200, FALSE, "error")
          ELSE Respond(pr, 500, FALSE, "error")]
    /\ UNCHANGED <<now, users, payments, traces, nreq>>
    /\ NoRecord
    /\ SameHistory

Tick ==
    /\ now < Now0 + MaxTicks * ClockStep
    /\ now' = now + ClockStep
    /\ UNCHANGED <<users, payments, traces, procs, nreq>>
    /\ NoRecord
    /\ SameHistory

----------------------------------------------------------------------------
(* The expiry sweeps.  A run is one action: a pass is a loop of pages, each *)
(* page a query (filter, orderBy field asc, limit pageSize, startAfter the *)
(* last snapshot of the page before) and one batched write.                *)

Idx(u) == CHOOSE i \in 1..Len(UidOrder) : UidOrder[i] = u

FieldVal(d, fieldPath) ==
    CASE fieldPath = "premium.expiresAt" -> d.premium.expiresAt
      [] fieldPath = "premium.expiryTimeMillis" -> d.premium.expiryTimeMillis
      [] OTHER -> d.premiumExpiry

(* The filter as it would be if it did not look at the flag a downgrade    *)
(* flips.                                                                  *)
Matches_AnyFlag(d, fieldPath, nowMs) ==
    /\ d.exists
    /\ FieldVal(d, fieldPath) # Absent
    /\ ~(fieldPath = "premium.expiresAt" /\ d.premium.stamp)
    /\ FieldVal(d, fieldPath) <= nowMs

(* where(..., '==', ...).where(fieldPath, '<=', nowMs): a document without *)
(* the field is in no result                                               *)
Matches(d, fieldPath, nowMs) ==
    /\ d.exists
    /\ FieldVal(d, fieldPath) # Absent
    /\ ~(fieldPath = "premium.expiresAt" /\ d.premium.stamp)
    /\ FieldVal(d, fieldPath) <= nowMs
    /\ IF fieldPath = "premiumExpiry" THEN d.plan = "premium"
       ELSE d.premium.active = "true"

NoCursor == [v |-> Absent, u |-> NoUid]

(* The order as it would be if the cursor were startAt, not startAfter. *)
KeyLess_Inclusive(v1, u1, v2, u2) == v1 < v2 \/ (v1 = v2 /\ Idx(u1) <= Idx(u2))

KeyLess(v1, u1, v2, u2) == v1 < v2 \/ (v1 = v2 /\ Idx(u1) < Idx(u2))

Candidates(us, fieldPath, nowMs, last) ==
    {u \in Uids :
        /\ Matches(us[u], fieldPath, nowMs)
        /\ last = NoCursor \/ KeyLess(last.v, last.u, FieldVal(us[u], fieldPath), u)}

RECURSIVE TakeFirst(_, _, _, _)
TakeFirst(us, fieldPath, S, n) ==
    IF n = 0 \/ S = {} THEN <<>>
    ELSE LET m == CHOOSE u \in S : \A w \in S :
                    u = w \/ KeyLess(FieldVal(us[u], fieldPath), u,
                                     FieldVal(us[w], fieldPath), w)
         IN <<m>> \o TakeFirst(us, fieldPath, S \ {m}, n - 1)

SeqRange(q) == {q[i] : i \in 1..Len(q)}

(* expire.js: the "best known" expiry across the three field locations *)
expMs(d) ==
    Max(Max(Num(d.premium.expiresAt), Num(d.premium.expiryTimeMillis)),
        Num(d.premiumExpiry))

(* the in-loop guard of each task and pass *)
SweepGuard(task, fieldPath, d, nowMs) ==
    CASE task = "ExpireLegacy" ->
            d.premiumExpiry # Absent /\ d.premiumExpiry > 0 /\ d.premiumExpiry <= nowMs
            /\ d.plan = "premium"
      [] fieldPath = "premiumExpiry" ->
            Num(d.premiumExpiry) > 0 /\ Num(d.premiumExpiry) <= nowMs
      [] OTHER -> expMs(d) > 0 /\ expMs(d) <= nowMs

(* The merge as it would be if the premium.* passes flipped the active     *)
(* flag only and left the plan to the legacy pass.                         *)
SweepUpdate_TwoStep(task, fieldPath, d) ==
    CASE task = "ExpireLegacy" -> [d EXCEPT !.plan = "free"]
      [] fieldPath = "premiumExpiry" ->
            [d EXCEPT !.plan = "free", !.premiumExpiry = 0, !.premium.active = "false"]
      [] OTHER -> [d EXCEPT !.premium.active = "false"]

(* The merge as it would be if a sweep wrote nothing to the account. *)
SweepUpdate_Nothing(task, fieldPath, d) == d

(* the merge each task and pass writes *)
SweepUpdate(task, fieldPath, d) ==
    CASE task = "ExpireLegacy" -> [d EXCEPT !.plan = "free"]
      [] fieldPath = "premiumExpiry" ->
            [d EXCEPT !.plan = "free", !.premiumExpiry = 0, !.premium.active = "false"]
      [] OTHER ->
            [d EXCEPT !.premium.active = "false", !.premiumExpiry = 0,
                      !.plan = IF d.plan = "premium" THEN "free" ELSE d.plan]

RECURSIVE SweepLoop(_, _, _, _, _, _)
SweepLoop(task, fieldPath, st, nowMs, last, size) ==
    LET page == TakeFirst(st.users, fieldPath,
                          Candidates(st.users, fieldPath, nowMs, last), size)
    IN
    IF page = <<>> \/ st.pages = st.stop THEN st
    ELSE LET hit == {u \in SeqRange(page) : SweepGuard(task, fieldPath, st.users[u], nowMs)}
             lastU == page[Len(page)]
         IN SweepLoop(task, fieldPath,
                [users |-> [u \in Uids |->
                               IF u \in hit THEN SweepUpdate(task, fieldPath, st.users[u])
                               ELSE st.users[u]],
                 processed |-> st.processed + Len(page),
                 downgrades |-> st.downgrades + Cardinality(hit),
                 pages |-> st.pages + 1,
                 stop |-> st.stop],
                nowMs,
                [v |-> FieldVal(st.users[lastU], fieldPath), u |-> lastU],
                size)

sweep(task, fieldPath, st, nowMs, size) ==
    SweepLoop(task, fieldPath, st, nowMs, NoCursor, size)

(* A run that throws: stop is the number of pages it handled, batch       *)
(* committed, before a query or a commit threw and ended it (expire.js     *)
(* l.145-148, and l.140-142 for its legacy pass; part_008 l.85-88).        *)
Never == -1

RunStart(us, stop) ==
    [users |-> us, processed |-> 0, downgrades |-> 0, pages |-> 0, stop |-> stop]

(* src/api/tasks/expire.js: premium.expiresAt, premium.expiryTimeMillis,   *)
(* then the legacy plan/premiumExpiry pass                                 *)
ExpireRunUntil(us, nowMs, size, stop) ==
    LET s0 == RunStart(us, stop)
        s1 == sweep("ExpireTask", "premium.expiresAt", s0, nowMs, size)
        s2 == sweep("ExpireTask", "premium.expiryTimeMillis", s1, nowMs, size)
    IN sweep("ExpireTask", "premiumExpiry", s2, nowMs, size)

ExpireRun(us, nowMs, size) == ExpireRunUntil(us, nowMs, size, Never)

(* src/unnamed/part_008: the plan/premiumExpiry pass alone *)
ExpireLegacyRunUntil(us, nowMs, size, stop) ==
    sweep("ExpireLegacy", "premiumExpiry", RunStart(us, stop), nowMs, size)

ExpireLegacyRun(us, nowMs, size) == ExpireLegacyRunUntil(us, nowMs, size, Never)

(* A run is worth a step only where it has something to downgrade. *)
ExpireTask(size) ==
    /\ users' = ExpireRun(users, now, size).users
    /\ users' # users
    /\ UNCHANGED <<now, payments, traces, procs, nreq>>
    /\ NoRecord
    /\ Swept

(* ... part_008 then adds its metric to webhook_traces *)
ExpireLegacy(size) ==
    /\ users' = ExpireLegacyRun(users, now, size).users
    /\ users' # users
    /\ traces' = traces + 1
    /\ UNCHANGED <<now, payments, procs, nreq>>
    /\ NoRecord
    /\ Swept

----------------------------------------------------------------------------
(* The sweeper as a request handler: the trigger is authenticated, then   *)
(* each pass reads a page, stages its batch from the page's snapshots and  *)
(* commits it, other requests being handled in between.                    *)

(* The test as it would be if the endpoint were open. *)
CronValid_Open(c) == TRUE

(* valid = !needSecret || header === CRON_SECRET || query.secret ===       *)
(* CRON_SECRET                                                             *)
CronValid(c) == ~c.needSecret \/ c.header = "match" \/ c.query = "match"

CronPasses(task) ==
    IF task = "ExpireTask"
    THEN <<"premium.expiresAt", "premium.expiryTimeMillis", "premiumExpiry">>
    ELSE <<"premiumExpiry">>

SweepPcs == {"sw_read", "sw_commit", "sw_metric"}

(* premium: {...(d.premium || {}), active: false} merged into the stored   *)
(* map: the fields the snapshot held are written back                      *)
MergePremium(dp, cp) ==
    [active |-> "false",
     expiresAt |-> IF dp.expiresAt # Absent THEN dp.expiresAt ELSE cp.expiresAt,
     stamp |-> IF dp.expiresAt # Absent THEN dp.stamp ELSE cp.stamp,
     expiryTimeMillis |-> IF dp.expiryTimeMillis # Absent THEN dp.expiryTimeMillis
                          ELSE cp.expiryTimeMillis]

(* batch.set(docSnap.ref, update, {merge: true}): the update staged from   *)
(* snapshot d lands on the document as it is at the commit                 *)
SweepMerge(task, fieldPath, d, cur) ==
    CASE task = "ExpireLegacy" -> [cur EXCEPT !.exists = TRUE, !.plan = "free"]
      [] fieldPath = "premiumExpiry" ->
            [cur EXCEPT !.exists = TRUE, !.plan = "free", !.premiumExpiry = 0,
                        !.premium = MergePremium(d.premium, cur.premium)]
      [] OTHER ->
            [cur EXCEPT !.exists = TRUE,
                        !.premium = MergePremium(d.premium, cur.premium),
                        !.premiumExpiry = 0,
                        !.plan = IF d.plan = "premium" THEN "free" ELSE cur.plan]

(* {ok: true, processed, downgrades}: what a finished run reports *)
Report(pr) ==
    [pr EXCEPT !.run = [NoRun EXCEPT !.processed = pr.run.processed,
                                     !.downgrades = pr.run.downgrades,
                                     !.at = pr.run.at]]

Cron_Start(p, task, req, size) ==
    /\ Free(p)
    /\ nreq' = nreq + 1
    /\ LET pr == Begin(task, req, "sw_read") IN
       procs' = [procs EXCEPT ![p] =
          IF ~CronValid(req.cron) THEN Respond(pr, 401, FALSE, "unauthorized")
          ELSE [pr EXCEPT !.nowMs = now,
                          !.run = [NoRun EXCEPT !.pass = 1, !.size = size, !.at = now]]]
    /\ UNCHANGED <<now, users, payments, traces>>
    /\ NoRecord
    /\ Opened(p)

(* the documents of a page the guard lets through *)
Staged(task, fieldPath, page, nowMs) ==
    {i \in 1..Len(page) : SweepGuard(task, fieldPath, page[i].d, nowMs)}

(* const snap = await q.get(): an empty page ends the pass, and the last   *)
(* pass the run (part_008 has its metric to add first); a page with        *)
(* nothing to write is counted and the next one read                       *)
Cron_Read(p) ==
    LET pr == procs[p]
        passes == CronPasses(pr.kind)
        fieldPath == passes[pr.run.pass]
        ids == TakeFirst(users, fieldPath,
                         Candidates(users, fieldPath, pr.nowMs, pr.run.last),
                         pr.run.size)
        page == [i \in 1..Len(ids) |-> [u |-> ids[i], d |-> users[ids[i]]]]
        lastU == ids[Len(ids)]
        read == [pr.run EXCEPT !.last = [v |-> FieldVal(users[lastU], fieldPath),
                                         u |-> lastU]]
    IN
    /\ pr.pc = "sw_read"
    /\ procs' = [procs EXCEPT ![p] =
          IF ids = <<>>
          THEN IF pr.run.pass < Len(passes)
               THEN [pr EXCEPT !.run.pass = @ + 1, !.run.last = NoRun.last]
               ELSE IF pr.kind = "ExpireLegacy" THEN [pr EXCEPT !.pc = "sw_metric"]
               ELSE Respond(Report(pr), 200, TRUE, "swept")
          ELSE IF Staged(pr.kind, fieldPath, page, pr.nowMs) = {}
               THEN [pr EXCEPT !.run = [read EXCEPT !.processed = @ + Len(ids)]]
          ELSE [pr EXCEPT !.run = [read EXCEPT !.page = page], !.pc = "sw_commit"]]
    /\ UNCHANGED <<now, users, payments, traces, nreq>>
    /\ NoRecord
    /\ SameHistory

(* await batch.commit() *)
Cron_Commit(p) ==
    LET pr == procs[p]
        fieldPath == CronPasses(pr.kind)[pr.run.pass]
        page == pr.run.page
        hit == Staged(pr.kind, fieldPath, page, pr.nowMs)
    IN
    /\ pr.pc = "sw_commit"
    /\ users' = [u \in Uids |->
                   IF \E i \in hit : page[i].u = u
                   THEN LET i == CHOOSE j \in hit : page[j].u = u IN
                        SweepMerge(pr.kind, fieldPath, page[i].d, users[u])
                   ELSE users[u]]
    /\ procs' = [procs EXCEPT ![p] =
                   [pr EXCEPT !.pc = "sw_read", !.wrote = TRUE,
                              !.run = [@ EXCEPT !.page = <<>>,
                                                !.processed = @ + Len(page),
                                                !.downgrades = @ + Cardinality(hit)]]]
    /\ UNCHANGED <<now, payments, traces, nreq>>
    /\ NoRecord
    /\ Swept

(* part_008: await db.collection('webhook_traces').add({...}) *)
Cron_Metric(p) ==
    LET pr == procs[p] IN
    /\ pr.pc = "sw_metric"
    /\ traces' = traces + 1
    /\ procs' = [procs EXCEPT ![p] = Respond(Report(pr), 200, TRUE, "swept")]
    /\ UNCHANGED <<now, users, payments, nreq>>
    /\ NoRecord
    /\ SameHistory

(* a query or a commit that throws: 200 {ok: false, error: 'internal'} *)
Cron_Fail(p) ==
    LET pr == procs[p] IN
    /\ pr.pc \in SweepPcs
    /\ procs' = [procs EXCEPT ![p] =
                   Respond([pr EXCEPT !.run = NoRun], 200, FALSE, "error")]
    /\ UNCHANGED <<now, users, payments, traces, nreq>>
    /\ NoRecord
    /\ SameHistory

----------------------------------------------------------------------------
(* The system *)

(* The store a run starts from: empty, or as it is after u1 signed up in   *)
(* the client app (a profile with an email) and part_000 applied a first   *)
(* 30-day payment r2 of u1 at Now0.                                        *)
EmptyUsers == [u \in Uids |-> NoUser]
EmptyPayments == [r \in Refs |-> NoPayment]
NoApplied == [r \in Refs |-> [u \in Uids |-> 0]]
NoFirst == [u \in Uids |-> 0]

PaidUser ==
    [Profile("e1") EXCEPT !.plan = "premium", !.premiumSince = Now0,
                          !.premiumExpiry = Now0 + DefaultDays * DayMs,
                          !.lastPaymentRef = "r2", !.source = "paystack"]

PaidEntry ==
    [NoPayment EXCEPT !.exists = TRUE, !.uid = "u1", !.status = "success",
                      !.processed = TRUE]

InitStore ==
    \/ /\ users = EmptyUsers
       /\ payments = EmptyPayments
       /\ traces = 0
       /\ applied = NoApplied
       /\ firstAt = NoFirst
    \/ /\ users = [EmptyUsers EXCEPT !["u1"] = PaidUser]
       /\ payments = [EmptyPayments EXCEPT !["r2"] = PaidEntry]
       /\ traces = 1
       /\ applied = [NoApplied EXCEPT !["r2"]["u1"] = 1]
       /\ firstAt = [NoFirst EXCEPT !["u1"] = Now0]

NoSnap == [users |-> EmptyUsers, payments |-> EmptyPayments, swept |-> FALSE]

Init ==
    /\ now = Now0
    /\ InitStore
    /\ procs = [p \in Procs |-> IdleProc]
    /\ nreq = 0
    /\ lastMut = NoMut
    /\ prev = IdleProc
    /\ snap = NoSnap

Starts(P, WI, CI) ==
    \/ \E p \in P, req \in WI : WebhookTx_Start(p, req)
    \/ \E p \in P, req \in WI : WebhookPlain_Start(p, req)
    \/ \E p \in P, req \in WI : WebhookPlain_TraceFail(p, req)
    \/ \E p \in P, req \in CI : ConfirmPlain_Start(p, req)
    \/ \E p \in P, req \in CI : ConfirmTx_Start(p, req)

PlayStarts(P, race) ==
    LET PI(kind) == IF race THEN RacePlayInputs(kind) ELSE PlayInputs(kind) IN
    \/ \E p \in P, req \in PI("PlayEdge") : PlayEdge_Start(p, req)
    \/ \E p \in P, req \in PI("PlayNode") : PlayNode_Start(p, req)
    \/ \E p \in P, req \in PI("PlayV2") : PlayV2_Start(p, req)
    \/ \E p \in P, req \in PI("PlayLegacy") : PlayLegacy_Start(p, req)

Steps(P) ==
    \/ \E p \in P : WebhookTx_GetPay(p)
    \/ \E p \in P : WebhookTx_GetUser(p)
    \/ \E p \in P : WebhookTx_Commit(p)
    \/ \E p \in P : WebhookTx_Retry(p)
    \/ \E p \in P : WebhookPlain_Ignore(p)
    \/ \E p \in P : WebhookPlain_Guard(p)
    \/ \E p \in P : WebhookPlain_Lookup(p)
    \/ \E p \in P : WebhookPlain_NoUid(p)
    \/ \E p \in P : WebhookPlain_ReadUser(p)
    \/ \E p \in P : WebhookPlain_WritePay(p)
    \/ \E p \in P : WebhookPlain_WriteUser(p)
    \/ \E p \in P : ConfirmPlain_ReadUser(p)
    \/ \E p \in P : ConfirmPlain_WritePay(p)
    \/ \E p \in P : ConfirmPlain_WriteUser(p)
    \/ \E p \in P : ConfirmTx_GetPay(p)
    \/ \E p \in P : ConfirmTx_GetUser(p)
    \/ \E p \in P : ConfirmTx_Commit(p)
    \/ \E p \in P : ConfirmTx_Retry(p)
    \/ \E p \in P : Fail(p)
    \/ \E p \in P : PlayEdge_Write(p)
    \/ \E p \in P : PlayNode_Write(p)
    \/ \E p \in P : PlayV2_Write(p)
    \/ \E p \in P : PlayLegacy_Write(p)
    \/ \E p \in P : PlayWriteFail(p)

Env == Tick \/ ExpireTask(pageSize) \/ ExpireLegacy(pageSize)

(* Spec: handlers run in parallel, one per slot, on the requests that race *)
(* for one account and two references.                                     *)
Next ==
    \/ Starts(Procs, RaceWebhookInputs, RaceConfirmInputs)
    \/ PlayStarts(Procs, TRUE)
    \/ Steps(Procs)
    \/ Env

Spec == Init /\ [][Next]_vars

(* SeqSpec: one request at a time, each handled to its response before the *)
(* next is accepted, on every request shape.  prev is the request handled  *)
(* before the current one and snap the store as the current one found it.  *)
SeqNext ==
    \/ Starts({1}, WebhookInputs, ConfirmInputs)
    \/ PlayStarts({1}, FALSE)
    \/ Steps({1})
    \/ Env

SeqSpec == Init /\ [][SeqNext]_vars

(* SweepSpec: the sweeps alone, paged by each size, over a store that holds *)
(* an account in every storage shape the handlers leave behind: no         *)
(* document, a bare profile, a gateway plan (webhook and confirm), a        *)
(* subscription whose expiresAt is a number (verify-subscription.js) or a   *)
(* Timestamp (part_005), a subscription part_006 renewed through            *)
(* expiryTimeMillis alone, a one-time product of part_005 with no expiry,   *)
(* and a gateway plan next to a subscription.                               *)
PageSizes == (1..MaxPage) \cup {pageSize}

SweepExpiries == {31, 61}

RefOf(u) == IF u = "u1" THEN "r1" ELSE "r2"

Paid(u, e) ==
    [NoUser EXCEPT !.exists = TRUE, !.plan = "premium", !.premiumSince = Now0,
                   !.premiumExpiry = e, !.lastPaymentRef = RefOf(u),
                   !.source = "paystack"]

Subscribed(d, expiresAt, stamp, expiryTimeMillis) ==
    [d EXCEPT !.exists = TRUE,
              !.premium = [active |-> "true", expiresAt |-> expiresAt, stamp |-> stamp,
                           expiryTimeMillis |-> expiryTimeMillis]]

SweepDocs(u) ==
    {NoUser, Profile(NoEmail)}
    \cup {Subscribed(NoUser, e, FALSE, e) : e \in SweepExpiries}
    \cup {Subscribed(NoUser, 31, TRUE, 31),
          Subscribed(NoUser, 31, FALSE, 61),
          Subscribed(NoUser, Absent, FALSE, Absent)}
    \cup (IF u \in Callers
          THEN {Paid(u, e) : e \in SweepExpiries}
               \cup {Subscribed(Paid(u, 31), 61, FALSE, 61),
                     Subscribed(Paid(u, 31), 31, FALSE, 31)}
          ELSE {})

SweepStores ==
    {us \in [Uids -> UNION {SweepDocs(u) : u \in Uids}] :
        \A u \in Uids : us[u] \in SweepDocs(u)}

SweepInit ==
    /\ now = Now0
    /\ users \in SweepStores
    /\ payments = [r \in Refs |->
                     IF \E u \in Uids : users[u].lastPaymentRef = r
                     THEN [PaidEntry EXCEPT
                             !.uid = CHOOSE u \in Uids : users[u].lastPaymentRef = r]
                     ELSE NoPayment]
    /\ traces = Cardinality({r \in Refs : payments[r].exists})
    /\ applied = [r \in Refs |-> [u \in Uids |->
                                     IF users[u].lastPaymentRef = r THEN 1 ELSE 0]]
    /\ firstAt = [u \in Uids |-> IF users[u].lastPaymentRef # NoRef THEN Now0 ELSE 0]
    /\ procs = [p \in Procs |-> IdleProc]
    /\ nreq = 0
    /\ lastMut = NoMut
    /\ prev = IdleProc
    /\ snap = NoSnap

SweepNext ==
    \/ Tick
    \/ \E size \in PageSizes : ExpireTask(size)
    \/ \E size \in PageSizes : ExpireLegacy(size)

SweepSpec == SweepInit /\ [][SweepNext]_vars

(* CronSpec: the sweeper triggered as a request, page by page, next to     *)
(* another trigger or to the gateway's webhook for a renewal of u1, over   *)
(* stores whose accounts lapse at the first and the second clock step.     *)
CronSizes == {1, pageSize}

CronStores ==
    {[u \in Uids |-> IF u = "u1" THEN d1 ELSE IF u = "u2" THEN d2 ELSE NoUser] :
        d1 \in {Paid("u1", 11), Subscribed(Paid("u1", 11), 31, FALSE, 31),
                Subscribed(NoUser, 11, FALSE, 11)},
        d2 \in {NoUser, Subscribed(NoUser, 11, FALSE, 11),
                Subscribed(NoUser, 31, FALSE, 31)}}

CronWebhookInputs ==
    { Req(TRUE, "charge.success", "success", "r2", "u1", NoEmail, Absent, Absent, FALSE) }

CronInit ==
    /\ now = Now0
    /\ users \in CronStores
    /\ payments = [r \in Refs |->
                     IF users["u1"].lastPaymentRef = r THEN PaidEntry ELSE NoPayment]
    /\ traces = Cardinality({r \in Refs : payments[r].exists})
    /\ applied = [r \in Refs |-> [u \in Uids |->
                                     IF users[u].lastPaymentRef = r THEN 1 ELSE 0]]
    /\ firstAt = [u \in Uids |-> IF users[u].lastPaymentRef # NoRef THEN Now0 ELSE 0]
    /\ procs = [p \in Procs |-> IdleProc]
    /\ nreq = 0
    /\ lastMut = NoMut
    /\ prev = IdleProc
    /\ snap = NoSnap

CronNext ==
    \/ Tick
    \/ \E p \in Procs, req \in CronInputs, size \in CronSizes :
          Cron_Start(p, "ExpireTask", req, size)
    \/ \E p \in Procs, req \in CronInputs, size \in CronSizes :
          Cron_Start(p, "ExpireLegacy", req, size)
    \/ \E p \in Procs : Cron_Read(p)
    \/ \E p \in Procs : Cron_Commit(p)
    \/ \E p \in Procs : Cron_Metric(p)
    \/ \E p \in Procs : Cron_Fail(p)
    \/ \E p \in Procs, req \in CronWebhookInputs : WebhookTx_Start(p, req)
    \/ \E p \in Procs : WebhookTx_GetPay(p)
    \/ \E p \in Procs : WebhookTx_GetUser(p)
    \/ \E p \in Procs : WebhookTx_Commit(p)
    \/ \E p \in Procs : WebhookTx_Retry(p)

CronSpec == CronInit /\ [][CronNext]_vars

----------------------------------------------------------------------------
(* Claims *)

Done(pr) == pr.pc = "done"
Answered(pr) == Done(pr) /\ pr.outcome \in {"applied", "already"}
IsConfirm(kind) == kind \in {"ConfirmPlain", "ConfirmTx"}

(* The same request handled twice in a row by the same handler, both times *)
(* to an answer, with no sweep in between.                                 *)
Replayed(cur) ==
    /\ Answered(prev) /\ Done(cur) /\ cur.outcome # "error"
    /\ cur.kind = prev.kind /\ cur.req = prev.req
    /\ ~snap.swept

(* C1: a webhook handler given the same authentic success event for R      *)
(* twice in sequence answers the second delivery as already processed,     *)
(* writes neither collection during it (the stored expiry stays), leaves   *)
(* the ledger entry of R processed, and the two deliveries together mutate *)
(* the entitlement at most once (once if R was new).                       *)
C1_WebhookReplayIdempotent ==
    LET cur == procs[1] IN
    (Replayed(cur) /\ IsWebhook(cur.kind))
    => /\ cur.outcome = "already" /\ cur.alreadyProcessed
       /\ cur.nmut = 0
       /\ users = snap.users
       /\ payments = snap.payments
       /\ payments[cur.req.reference].exists /\ payments[cur.req.reference].processed
       /\ prev.nmut <= 1
       /\ (prev.outcome = "applied" <=> prev.nmut = 1)

C1_Witness ==
    LET cur == procs[1] IN
    /\ Replayed(cur) /\ IsWebhook(cur.kind)
    /\ prev.outcome = "applied" /\ cur.outcome = "already"
    /\ users[cur.req.uid].premiumExpiry = snap.users[cur.req.uid].premiumExpiry
    /\ now > Now0

(* C2: a confirmation handler given the same {uid, reference} twice in     *)
(* sequence, the reference verified by the gateway, answers the second     *)
(* call as already processed and leaves the stored expiry unchanged.       *)
C2_ConfirmReplayIdempotent ==
    LET cur == procs[1] IN
    (Replayed(cur) /\ IsConfirm(cur.kind))
    => /\ cur.outcome = "already" /\ cur.alreadyProcessed
       /\ cur.nmut = 0
       /\ users[cur.req.uid].premiumExpiry = snap.users[cur.req.uid].premiumExpiry

(* C3: of two deliveries of one reference to a webhook handler that run    *)
(* at the same time, at most one mutates the entitlement; the reference is *)
(* never applied twice.                                                    *)
C3_ConcurrentDuplicateOnce ==
    \A p, q \in Procs :
        (/\ p # q /\ Answered(procs[p]) /\ Answered(procs[q])
         /\ IsWebhook(procs[p].kind) /\ procs[q].kind = procs[p].kind
         /\ procs[p].req.reference = procs[q].req.reference)
        => /\ procs[p].nmut + procs[q].nmut <= 1
           /\ ~(procs[p].outcome = "applied" /\ procs[q].outcome = "applied")

(* C4: a confirmation and a webhook delivery for the same reference and    *)
(* account, run at the same time, apply at most one entitlement mutation.  *)
C4_CrossPathOnce ==
    \A p, q \in Procs :
        (/\ Answered(procs[p]) /\ Answered(procs[q])
         /\ IsConfirm(procs[p].kind) /\ IsWebhook(procs[q].kind)
         /\ procs[p].req.reference = procs[q].req.reference
         /\ procs[p].req.uid = procs[q].req.uid)
        => procs[p].nmut + procs[q].nmut <= 1

(* C5: whenever no handler is in the middle of a request, a ledger entry   *)
(* with processed = TRUE names an account whose entitlement has had that   *)
(* reference applied.                                                      *)
C5_ProcessedMeansApplied ==
    (\A p \in Procs : procs[p].pc \in {"idle", "done"})
    => \A r \in Refs :
          (payments[r].exists /\ payments[r].processed)
          => /\ payments[r].uid \in Uids
             /\ applied[r][payments[r].uid] >= 1

(* C6: every entitlement write stores max(stored expiry, now) + d days.    *)
C6_ExtendFromMax ==
    lastMut.kind # "none"
    => lastMut.newExpiry =
          Max(Num(lastMut.prevExpiry), lastMut.nowMs) + lastMut.extendDays * DayMs

(* C7: no entitlement write stores an expiry below max(stored expiry, now). *)
C7_ExtensionMonotone ==
    lastMut.kind # "none"
    => lastMut.newExpiry >= Max(Num(lastMut.prevExpiry), lastMut.nowMs)

(* C8: two successful events with different references for one account    *)
(* that had no entitlement, both applied while the clock stands at Now0,   *)
(* leave the expiry at Now0 + (d1 + d2) days.                              *)
C8_BothExtensionsTakeEffect ==
    \A p, q \in Procs :
        LET a == procs[p]
            b == procs[q]
        IN
        (/\ p # q /\ Done(a) /\ Done(b) /\ a.nmut = 1 /\ b.nmut = 1
         /\ a.req.reference # b.req.reference
         /\ a.req.uid = "u1" /\ b.req.uid = "u1"
         /\ applied[a.req.reference]["u1"] = 1 /\ applied[b.req.reference]["u1"] = 1
         /\ now = Now0)
        => users["u1"].premiumExpiry = Now0 + (a.extendDays + b.extendDays) * DayMs

(* C9: once a ledger entry has processed = TRUE, no step changes its       *)
(* processed flag, its account id or its status.                           *)
C9_LedgerImmutable ==
    [][\A r \in Refs :
          (payments[r].exists /\ payments[r].processed)
          => /\ payments'[r].processed
             /\ payments'[r].uid = payments[r].uid
             /\ payments'[r].status = payments[r].status]_vars

(* C10: once premiumSince is set (by the first successful event), no step  *)
(* of a payment handler or of a sweep overwrites or decreases it.          *)
C10_ActivationWriteOnce ==
    [][\A u \in Uids :
          Truthy(users[u].premiumSince)
          => users'[u].premiumSince = users[u].premiumSince]_vars

(* The request accepted by this step, if it accepts one: it takes the      *)
(* lowest free slot.                                                       *)
Accepts(p) == Free(p) /\ nreq' = nreq + 1

(* C11: a webhook request whose signature is missing or wrong leaves every *)
(* persisted document unchanged (users, payments and webhook_traces) and   *)
(* is answered with status 200 and ok = FALSE.                             *)
C11_BadSignatureNoWrite ==
    [][\A p \in Procs :
          (Accepts(p) /\ IsWebhook(procs'[p].kind) /\ ~procs'[p].req.sigOk)
          => /\ procs'[p].pc = "done"
             /\ procs'[p].code = 200 /\ ~procs'[p].ok
             /\ users' = users /\ payments' = payments /\ traces' = traces]_vars

(* C12: an authentic webhook event whose type is not a success type never *)
(* writes an entitlement, whatever its data.status: the handler that took  *)
(* it ends without an entitlement write and users is as it found it.       *)
C12_NonSuccessTypeNoEntitlement ==
    LET cur == procs[1] IN
    (/\ Done(cur) /\ IsWebhook(cur.kind) /\ cur.req.sigOk
     /\ cur.req.event \notin successEvents /\ ~snap.swept)
    => cur.nmut = 0 /\ users = snap.users

(* An authentic success event with a reference, naming no account and      *)
(* carrying no contact email, for a reference not processed before, that   *)
(* the handler answered without an internal error.                         *)
Unresolvable(cur) ==
    /\ Done(cur) /\ IsWebhook(cur.kind) /\ cur.outcome # "error" /\ ~snap.swept
    /\ cur.req.sigOk /\ cur.req.event = "charge.success"
    /\ cur.req.reference # NoRef
    /\ cur.req.uid = NoUid /\ cur.req.email = NoEmail
    /\ ~IsProcessed(snap.payments[cur.req.reference])

(* C13: such an event leaves a ledger entry for its reference with         *)
(* processed = FALSE, writes no entitlement, and is answered with status   *)
(* 200 and ok = FALSE.                                                     *)
C13_UnresolvedIsRecorded ==
    LET cur == procs[1] IN
    Unresolvable(cur)
    => /\ payments[cur.req.reference].exists
       /\ ~payments[cur.req.reference].processed
       /\ cur.nmut = 0 /\ users = snap.users
       /\ cur.code = 200 /\ ~cur.ok

(* C14: an authentic success-type webhook event without a reference, a    *)
(* subscription code or an id writes no ledger entry and no entitlement    *)
(* and is answered with status 200.                                        *)
C14_NoReferenceDropped ==
    LET cur == procs[1] IN
    (/\ Done(cur) /\ IsWebhook(cur.kind) /\ ~snap.swept
     /\ cur.req.sigOk /\ cur.req.event \in successEvents
     /\ cur.req.reference = NoRef)
    => /\ payments = snap.payments
       /\ users = snap.users /\ cur.nmut = 0
       /\ cur.code = 200

C14_Witness ==
    LET cur == procs[1] IN
    /\ Done(cur) /\ cur.kind = "WebhookPlain" /\ ~snap.swept
    /\ cur.req.sigOk /\ cur.req.event \in successEvents /\ cur.req.reference = NoRef
    /\ cur.outcome = "no_reference" /\ ~cur.ok
    /\ payments = snap.payments /\ snap.payments["r2"].processed

(* An authentic event with a reference whose type is no success type and  *)
(* whose data.status is not "success", answered without an internal error. *)
Dropped(cur) ==
    /\ Done(cur) /\ IsWebhook(cur.kind) /\ cur.outcome # "error" /\ ~snap.swept
    /\ cur.req.sigOk /\ cur.req.event \notin successEvents /\ ~isSuccess(cur.req)
    /\ cur.req.reference # NoRef

(* C15: such an event leaves a ledger entry for its reference that is not  *)
(* processed, and is answered with ok = TRUE.                              *)
C15_DropIsRecorded ==
    LET cur == procs[1] IN
    Dropped(cur)
    => /\ payments[cur.req.reference].exists
       /\ ~payments[cur.req.reference].processed
       /\ cur.code = 200 /\ cur.ok

(* C16: a confirmation whose reference the gateway does not report as a   *)
(* success is answered with status 400 and leaves the ledger and every     *)
(* entitlement as they were.                                               *)
C16_NotVerifiedNoWrite ==
    LET cur == procs[1] IN
    (/\ Done(cur) /\ IsConfirm(cur.kind) /\ ~snap.swept
     /\ cur.req.uid # NoUid /\ cur.req.reference # NoRef
     /\ ~cur.req.verifyOk)
    => /\ cur.code = 400 /\ ~cur.ok
       /\ payments = snap.payments
       /\ users = snap.users /\ cur.nmut = 0

C16_Witness ==
    LET cur == procs[1] IN
    /\ Done(cur) /\ cur.kind = "ConfirmPlain" /\ ~snap.swept
    /\ ~cur.req.verifyOk /\ cur.outcome = "not_verified" /\ cur.code = 400
    /\ users = snap.users /\ users[cur.req.uid].plan = "premium"
    /\ ~payments[cur.req.reference].exists

IsPlay(kind) == kind \in {"PlayEdge", "PlayNode", "PlayV2", "PlayLegacy"}

(* A well-formed verification request for an account that the handler      *)
(* found not to be an active subscription (expired, not purchased, or the  *)
(* billing call failed on the token).                                      *)
NotActive(cur) ==
    /\ Done(cur) /\ IsPlay(cur.kind) /\ ~snap.swept
    /\ cur.req.uid # NoUid /\ cur.outcome # "bad_request"
    /\ ~cur.isActive

(* C17: such a request is answered with a client-visible error and leaves  *)
(* the account's premium.active and expiry fields as they were.            *)
C17_NotActiveRejected ==
    LET cur == procs[1] IN
    NotActive(cur)
    => /\ cur.code >= 400 /\ ~cur.ok
       /\ users[cur.req.uid].premium = snap.users[cur.req.uid].premium

(* The write of a verification handler that found an active subscription  *)
(* with a reported expiry.                                                 *)
PlayApplies(p) ==
    /\ IsPlay(procs[p].kind) /\ procs[p].pc # "done"
    /\ procs'[p].pc = "done" /\ procs'[p].wrote
    /\ procs[p].isActive /\ procs[p].req.play.expiry # Absent

(* C18: a successful subscription event reporting the expiry E stores E    *)
(* when E is later than the handler's now; otherwise it stores no less     *)
(* than max(stored expiry, now), as extending from the maximum does.       *)
C18_AuthoritativeExpiry ==
    [][\A p \in Procs :
          PlayApplies(p)
          => LET E == procs[p].req.play.expiry
                 u == procs[p].uid
                 C == Num(users[u].premium.expiryTimeMillis)
             IN IF E > procs[p].nowMs
                THEN users'[u].premium.expiryTimeMillis = E
                ELSE users'[u].premium.expiryTimeMillis >= Max(C, procs[p].nowMs)]_vars

(* An account holds premium through its plan or through its subscription    *)
(* map; its expiry is the latest one any of the three fields holds, and it  *)
(* has lapsed when that expiry is set and not later than now.               *)
IsPremium(d) == d.plan = "premium" \/ d.premium.active = "true"
Lapsed(d, nowMs) == IsPremium(d) /\ expMs(d) > 0 /\ expMs(d) <= nowMs
PlanLapsed(d, nowMs) ==
    d.plan = "premium" /\ Num(d.premiumExpiry) > 0 /\ Num(d.premiumExpiry) <= nowMs

(* C19: one complete run of a sweep over a store no one else writes to     *)
(* downgrades exactly the premium accounts whose expiry is not later than  *)
(* now and leaves every other account as it was, whatever the page size:   *)
(* after expire.js no lapsed account is premium, after part_008 every      *)
(* account with a lapsed plan has plan 'free', and both report as many     *)
(* downgrades as there were lapsed accounts.                               *)
C19_SweepExact ==
    \A size \in PageSizes :
        LET r == ExpireRun(users, now, size)
            l == ExpireLegacyRun(users, now, size)
            M == {u \in Uids : Lapsed(users[u], now)}
            P == {u \in Uids : PlanLapsed(users[u], now)}
        IN /\ \A u \in M : ~IsPremium(r.users[u])
           /\ \A u \in Uids \ M : r.users[u] = users[u]
           /\ r.downgrades = Cardinality(M)
           /\ \A u \in P : l.users[u] = [users[u] EXCEPT !.plan = "free"]
           /\ \A u \in Uids \ P : l.users[u] = users[u]
           /\ l.downgrades = Cardinality(P)

(* C20: a sweep run a second time right after a complete run, at the same  *)
(* now and with nothing written in between, changes no account and reports *)
(* downgrades = 0, for expire.js and for part_008 and whatever the page    *)
(* size.                                                                   *)
C20_SecondRunIdle ==
    \A size \in PageSizes :
        LET r1 == ExpireRun(users, now, size)
            r2 == ExpireRun(r1.users, now, size)
            l1 == ExpireLegacyRun(users, now, size)
            l2 == ExpireLegacyRun(l1.users, now, size)
        IN /\ r2.users = r1.users /\ r2.downgrades = 0
           /\ l2.users = l1.users /\ l2.downgrades = 0

(* expire.js has run and downgraded u2; its next run at the same now still *)
(* reads u1, whose expiresAt has passed but whose latest expiry has not,   *)
(* and downgrades nothing                                                  *)
C20_Witness ==
    /\ snap.swept
    /\ users["u2"].plan = "free" /\ users["u2"].premiumExpiry = 0
    /\ IsPremium(users["u1"])
    /\ ExpireRun(users, now, 1).processed > 0
    /\ ExpireRun(users, now, 1).downgrades = 0

(* What a sweep may write to an account: its plan and its active flag. *)
OnlyFlags(before, after) ==
    after = [before EXCEPT !.plan = after.plan, !.premium.active = after.premium.active]

(* C21: a sweep run only flips the plan / active flag of an account; the   *)
(* value of every stored expiry field (premiumExpiry, premium.expiresAt,   *)
(* premium.expiryTimeMillis) of every account is after the run what it was *)
(* before, for expire.js and for part_008.                                 *)
C21_SweepKeepsExpiry ==
    \A size \in PageSizes : \A u \in Uids :
        /\ OnlyFlags(users[u], ExpireRun(users, now, size).users[u])
        /\ OnlyFlags(users[u], ExpireLegacyRun(users, now, size).users[u])

(* C22: within one run of expire.js, which makes a pass per expiry field,  *)
(* every account is written and counted by at most one pass: the           *)
(* downgrades the run returns is the number of distinct accounts it        *)
(* changed.                                                                *)
C22_NoDoubleDowngrade ==
    \A size \in PageSizes :
        LET r == ExpireRun(users, now, size)
        IN r.downgrades = Cardinality({u \in Uids : r.users[u] # users[u]})

(* after a sweep, an account is still there that the filters of both       *)
(* premium.* passes select and the guard lets through; the run counts it   *)
(* once                                                                    *)
C22_Witness ==
    /\ snap.swept
    /\ \E u \in Uids :
          /\ Matches(users[u], "premium.expiresAt", now)
          /\ Matches(users[u], "premium.expiryTimeMillis", now)
          /\ SweepGuard("ExpireTask", "premium.expiresAt", users[u], now)
          /\ ~IsPremium(ExpireRun(users, now, 1).users[u])
    /\ ExpireRun(users, now, 1).downgrades = 1

(* The points at which a run can throw: after any number of pages. *)
FailPoints == 0..(3 * Cardinality(Uids))

(* C23: a sweep run that fails after any number of committed pages leaves  *)
(* every account either as it was or as one uninterrupted run leaves it,   *)
(* and a complete run from scratch after it ends in the state one          *)
(* uninterrupted run ends in, for expire.js and for part_008.              *)
C23_RestartSafe ==
    \A size \in PageSizes, k \in FailPoints :
        LET full == ExpireRun(users, now, size).users
            part == ExpireRunUntil(users, now, size, k).users
            lfull == ExpireLegacyRun(users, now, size).users
            lpart == ExpireLegacyRunUntil(users, now, size, k).users
        IN /\ \A u \in Uids : part[u] \in {users[u], full[u]}
           /\ ExpireRun(part, now, size).users = full
           /\ \A u \in Uids : lpart[u] \in {users[u], lfull[u]}
           /\ ExpireLegacyRun(lpart, now, size).users = lfull

(* a run of expire.js that throws after its first page of one has          *)
(* downgraded some of the lapsed accounts and not the others               *)
C23_Witness ==
    LET full == ExpireRun(users, now, 1).users
        part == ExpireRunUntil(users, now, 1, 1).users
    IN /\ snap.swept
       /\ part # users
       /\ part # full
       /\ ExpireRun(part, now, 1).users = full

(* The passes the two sweeps make. *)
Passes ==
    {<<"ExpireTask", "premium.expiresAt">>, <<"ExpireTask", "premium.expiryTimeMillis">>,
     <<"ExpireTask", "premiumExpiry">>, <<"ExpireLegacy", "premiumExpiry">>}

CeilDiv(n, size) == (n + size - 1) \div size

(* C24: with no other writer, every pass over a finite set of accounts     *)
(* ends on an empty page after finitely many pages, whatever the page      *)
(* size: the cursor moves past every account of a page, downgraded or      *)
(* skipped by the guard, so a pass reads each account its filter matches   *)
(* exactly once, in ceil(matches / page size) pages, and never needs the   *)
(* page after those.                                                       *)
C24_PassTerminates ==
    \A size \in PageSizes, ps \in Passes :
        LET n == Cardinality({u \in Uids : Matches(users[u], ps[2], now)})
            st == sweep(ps[1], ps[2], RunStart(users, Cardinality(Uids) + 1), now, size)
        IN /\ st.processed = n
           /\ st.pages = CeilDiv(n, size)

(* a pass of page size 1 over two matching accounts, one of which the      *)
(* guard skips, takes two pages                                            *)
C24_Witness ==
    /\ snap.swept
    /\ \E u, w \in Uids :
          /\ u # w
          /\ Matches(users[u], "premium.expiresAt", now)
          /\ Matches(users[w], "premium.expiresAt", now)
          /\ ~SweepGuard("ExpireTask", "premium.expiresAt", users[u], now)
          /\ SweepGuard("ExpireTask", "premium.expiresAt", users[w], now)
    /\ sweep("ExpireTask", "premium.expiresAt", RunStart(users, Never), now, 1).pages = 2

(* C25: every POST a webhook handler has answered was answered with status *)
(* 200, whatever the outcome: bad signature, ignored event type, missing   *)
(* reference or identity, replay, success, or a store call that threw.     *)
C25_WebhookAlways200 ==
    \A p \in Procs :
        (Done(procs[p]) /\ procs[p].kind \in {"WebhookTx", "WebhookPlain"})
        => procs[p].code = 200

(* a webhook whose store call threw, answered 200 with ok = false, after a *)
(* webhook that was applied                                                *)
C25_Witness ==
    /\ Done(procs[1]) /\ procs[1].kind \in {"WebhookTx", "WebhookPlain"}
    /\ procs[1].outcome = "error" /\ procs[1].code = 200 /\ ~procs[1].ok
    /\ prev.outcome = "applied" /\ prev.code = 200

(* The days a request asks for: its day count if there is one above zero,  *)
(* else its month count times 30 if there is one above zero, else 30.      *)
RequestedDays(req) ==
    IF req.days # Absent /\ req.days > 0 THEN req.days
    ELSE IF req.months # Absent /\ req.months > 0 THEN req.months * 30
    ELSE DefaultDays

(* C26: the number of days a handler applies is the explicit day count if  *)
(* it is present and above zero, else the month count times 30 if it is    *)
(* present and above zero, else 30; and a webhook applies the day count    *)
(* the payment's metadata carries.                                         *)
C26_ExtensionDays ==
    \A p \in Procs :
        (Done(procs[p]) /\ procs[p].outcome = "applied")
        => procs[p].extendDays = RequestedDays(procs[p].req)

(* An authentic charge.success event with a reference that was answered    *)
(* without a store failure and was not a replay.                           *)
FreshSuccess(cur) ==
    /\ Done(cur) /\ cur.kind \in {"WebhookTx", "WebhookPlain"}
    /\ cur.req.sigOk /\ cur.req.event = "charge.success" /\ cur.req.status = "success"
    /\ cur.req.reference # NoRef
    /\ cur.outcome \notin {"error", "already"}

(* The account whose profile holds the email, as the store was when the    *)
(* request was accepted.                                                   *)
HoldersOf(email) == {u \in Uids : snap.users[u].exists /\ snap.users[u].email = email}

(* C27: a success webhook event is applied to the account its metadata     *)
(* names whenever it names one, whatever its contact email; when it names  *)
(* none and an account holds the contact email, it is applied to that      *)
(* account; otherwise it is applied to no account.                         *)
C27_ResolutionOrder ==
    FreshSuccess(procs[1])
    => LET req == procs[1].req IN
       IF req.uid # NoUid
       THEN procs[1].outcome = "applied" /\ lastMut.uid = req.uid
       ELSE IF req.email # NoEmail /\ HoldersOf(req.email) # {}
            THEN procs[1].outcome = "applied" /\ lastMut.uid \in HoldersOf(req.email)
            ELSE procs[1].outcome # "applied"

(* C28: in every reachable state, a ledger entry with processed = true has *)
(* status 'success' and names an account, and that account's entitlement   *)
(* has been written for the reference (plan 'premium', lastPaymentRef the  *)
(* reference, in one write) with the gateway as its source.                *)
C28_ProcessedSideEffects ==
    \A r \in Refs :
        (payments[r].exists /\ payments[r].processed)
        => /\ payments[r].status = "success"
           /\ payments[r].uid \in Uids
           /\ applied[r][payments[r].uid] >= 1
           /\ users[payments[r].uid].lastPaymentRef # NoRef
           /\ users[payments[r].uid].source = "paystack"

(* A gateway success for a reference the ledger did not hold, asking for   *)
(* the default 30 days, accepted when its account had no entitlement, and  *)
(* answered without a store failure and with no sweep since.               *)
FirstActivation(cur) ==
    /\ Done(cur) /\ cur.outcome # "error" /\ ~snap.swept
    /\ cur.req.uid # NoUid /\ cur.req.reference # NoRef
    /\ \/ IsConfirm(cur.kind) /\ cur.req.verifyOk
       \/ /\ cur.kind \in {"WebhookTx", "WebhookPlain"} /\ cur.req.sigOk
          /\ cur.req.event = "charge.success" /\ cur.req.status = "success"
    /\ cur.req.days = Absent /\ cur.req.months = Absent
    /\ ~snap.payments[cur.req.reference].exists
    /\ snap.users[cur.req.uid].plan = "none"
    /\ snap.users[cur.req.uid].premiumExpiry = Absent
    /\ snap.users[cur.req.uid].premium.active # "true"

(* C29: an account with no prior entitlement that receives a gateway       *)
(* success with a 30-day extension ends with plan 'premium', expiry = now  *)
(* + 30 days, activation = now, and a processed ledger entry for the       *)
(* reference.                                                              *)
C29_FirstActivation ==
    FirstActivation(procs[1])
    => LET u == procs[1].req.uid
           r == procs[1].req.reference
       IN /\ procs[1].outcome = "applied"
          /\ lastMut.uid = u /\ lastMut.reference = r
          /\ users[u].plan = "premium"
          /\ users[u].premiumExpiry = lastMut.nowMs + DefaultDays * DayMs
          /\ users[u].premiumSince = lastMut.nowMs
          /\ payments[r].exists /\ payments[r].processed /\ payments[r].uid = u

(* the webhook of webhook.js has activated u1 at Now0 for reference r1 *)
C29_Witness ==
    /\ FirstActivation(procs[1]) /\ procs[1].kind = "WebhookTx"
    /\ users["u1"].plan = "premium"
    /\ users["u1"].premiumSince = Now0
    /\ users["u1"].premiumExpiry = Now0 + DefaultDays * DayMs
    /\ payments["r1"].processed

(* The accounts a request can be for: the one it names, else the holders   *)
(* of its contact email.                                                   *)
AccountsOf(req) ==
    IF req.uid # NoUid THEN {req.uid}
    ELSE {u \in Uids : users[u].exists /\ users[u].email = req.email}

----------------------------------------------------------------------------
PlayWritePcs == {"pe_write", "pn_write", "pv_write", "pl_write"}

PlayPremium(pr) ==
    CASE pr.kind = "PlayEdge" -> PlayEdge_Premium(pr)
      [] pr.kind = "PlayNode" -> PlayNode_Premium(pr)
      [] pr.kind = "PlayV2" -> PlayV2_Premium(pr)
      [] OTHER -> PlayLegacy_Premium(pr)

(* C31: best-effort acknowledgement.  A subscription verification whose    *)
(* acknowledgement call failed goes on exactly as one whose call           *)
(* succeeded: right after the failed call the handler is at its            *)
(* entitlement write (or, with no account to write, has answered 200 ok),  *)
(* and when that write is made the answer is 200 ok and the entitlement    *)
(* stored is the one the handler stores when the acknowledgement succeeds. *)
C31_AckBestEffort ==
    [][\A p \in Procs :
         (procs'[p] # procs[p] /\ IsPlay(procs'[p].kind) /\ procs'[p].acked = "failed") =>
            IF procs[p].pc \in PlayWritePcs
            THEN procs'[p].wrote =>
                   /\ procs'[p].code = 200 /\ procs'[p].ok
                   /\ users'[procs[p].uid].premium =
                          PlayPremium([procs[p] EXCEPT !.acked = "ok"])
            ELSE \/ procs'[p].pc \in PlayWritePcs
                 \/ Done(procs'[p]) /\ procs'[p].code = 200 /\ procs'[p].ok]_vars

(* A verification whose acknowledgement failed has answered 200 ok and the *)
(* account holds the active entitlement with the reported expiry.          *)
C31_Witness ==
    \E p \in Procs :
        LET pr == procs[p] IN
        /\ Done(pr) /\ IsPlay(pr.kind) /\ pr.acked = "failed"
        /\ pr.wrote /\ pr.code = 200 /\ pr.ok
        /\ users[pr.req.uid].premium.active = "true"
        /\ users[pr.req.uid].premium.expiryTimeMillis = pr.req.play.expiry

----------------------------------------------------------------------------
Deactivated(before, after) ==
    \/ after.premium.active = "false" /\ before.premium.active # "false"
    \/ after.plan = "free" /\ before.plan # "free"

(* C34: whatever shapes the accounts are stored in and whatever the page   *)
(* size, a run of expire.js sets neither premium.active=false nor          *)
(* plan='free' on an account one of whose stored expiry fields             *)
(* (premium.expiresAt, premium.expiryTimeMillis, premiumExpiry) is later   *)
(* than now.                                                               *)
C34_ValidNeverDeactivated ==
    \A size \in PageSizes :
        LET r == ExpireRun(users, now, size).users IN
        \A u \in Uids :
            expMs(users[u]) > now => ~Deactivated(users[u], r[u])

----------------------------------------------------------------------------
(* what the billing service's answer says of the subscription *)
StateSuccess(play, nowMs) ==
    \/ play.state \in {"ACTIVE", "IN_GRACE_PERIOD"}
    \/ play.state = "CANCELED" /\ play.expiry # Absent /\ play.expiry > nowMs

Reported(pr) ==
    /\ IsPlay(pr.kind) /\ pr.req.uid # NoUid /\ pr.req.play.token
    /\ pr.req.play.callOk /\ pr.req.play.state # "none"

(* C35: subscription state mapping.  A verification request for which the  *)
(* billing service reports a subscription state is taken as a success      *)
(* (the handler goes to its write with the subscription active) exactly    *)
(* when the state is active or in-grace-period, or canceled with a         *)
(* reported expiry later than now; and the write stores                    *)
(* premium.active=true only for such a request.                            *)
C35_StateMapping ==
    [][\A p \in Procs :
         (procs'[p] # procs[p] /\ Reported(procs'[p])) =>
            /\ Free(p) =>
                  ((procs'[p].pc \in PlayWritePcs /\ procs'[p].isActive)
                      <=> StateSuccess(procs'[p].req.play, now))
            /\ (procs[p].pc \in PlayWritePcs /\ procs'[p].wrote
                   /\ users'[procs[p].uid].premium.active = "true") =>
                  StateSuccess(procs[p].req.play, procs[p].nowMs)]_vars

----------------------------------------------------------------------------
(* the accounts whose entitlement reference r has extended *)
Beneficiaries(r) == {u \in Uids : applied[r][u] > 0}

(* C36: one reference, one beneficiary.  After any sequence of client      *)
(* confirmations and webhook deliveries, a reference has extended the      *)
(* entitlement of at most one account.                                     *)
C36_OneBeneficiary == \A r \in Refs : Cardinality(Beneficiaries(r)) <= 1

----------------------------------------------------------------------------
(* C37: entitlement-ledger link.  In every reachable state, for every      *)
(* account whose entitlement has lastPaymentRef = R, the ledger entry for  *)
(* R exists, has processed=true and names that account.                    *)
C37_LedgerLink ==
    \A u \in Uids :
        LET R == users[u].lastPaymentRef IN
        R \in Refs =>
            /\ payments[R].exists
            /\ payments[R].processed
            /\ payments[R].uid = u

----------------------------------------------------------------------------
(* the answers that carry an expiry: newExpiryMs of webhook.js and of      *)
(* part_000's application, premiumExpiry of confirm.js and part_001;       *)
(* part_000 answers a replay with {ok, idempotent} only                    *)
CarriesExpiry(pr) ==
    \/ pr.kind \in {"WebhookTx", "ConfirmTx", "ConfirmPlain"}
    \/ pr.kind = "WebhookPlain" /\ pr.outcome = "applied"

(* C38: reported expiry equals stored expiry.  Whenever a gateway handler  *)
(* answers ok=true for a success event or confirmation, on its first       *)
(* application and on an already-processed replay alike, the expiry in the *)
(* answer is the premiumExpiry stored for the account at that moment.      *)
C38_ReportedIsStored ==
    [][\A p \in Procs :
         (procs[p].pc # "done" /\ Answered(procs'[p]) /\ procs'[p].ok
            /\ CarriesExpiry(procs'[p])) =>
            procs'[p].newExpiryMs = users'[procs[p].uid].premiumExpiry]_vars

----------------------------------------------------------------------------
(* two runs of the same sweeper that overlapped (the second was accepted   *)
(* while the first was in flight) and have both finished                   *)
Overlapped ==
    /\ \A p \in Procs : Done(procs[p]) /\ procs[p].outcome = "swept"
    /\ procs[1].kind = procs[2].kind

SingleRun(task, us, nowMs) ==
    IF task = "ExpireTask" THEN ExpireRun(us, nowMs, pageSize).users
    ELSE ExpireLegacyRun(us, nowMs, pageSize).users

(* C32: overlapping sweeps are self-correcting.  Two runs of a sweeper     *)
(* that overlap, under any interleaving of their page reads and batch      *)
(* commits, leave the store as a single run over the store the second run  *)
(* started on leaves it: every expired premium account free (after         *)
(* part_008: every lapsed plan 'free') and every other account untouched.  *)
C32_OverlapSelfCorrecting ==
    Overlapped =>
        LET task == procs[2].kind
            at == procs[2].run.at
            before == snap.users
        IN /\ users = SingleRun(task, before, at)
           /\ \A u \in Uids :
                 IF task = "ExpireTask"
                 THEN IF Lapsed(before[u], at) THEN ~IsPremium(users[u])
                      ELSE users[u] = before[u]
                 ELSE IF PlanLapsed(before[u], at)
                      THEN users[u] = [before[u] EXCEPT !.plan = "free"]
                      ELSE users[u] = before[u]

----------------------------------------------------------------------------
IsSweeper(kind) == kind \in {"ExpireTask", "ExpireLegacy"}

(* C33: sweep versus renewal.  Once a sweep run and a successful payment   *)
(* event that overlapped it have both completed, the account the payment   *)
(* extended to an expiry later than now has plan='premium' and that        *)
(* expiry stored, and no account whose stored premiumExpiry is later than  *)
(* now has lost its plan to the sweep.                                     *)
C33_RenewalSurvivesSweep ==
    \A p, q \in Procs :
        (/\ Done(procs[p]) /\ IsSweeper(procs[p].kind) /\ procs[p].outcome = "swept"
         /\ Done(procs[q]) /\ procs[q].kind = "WebhookTx" /\ procs[q].outcome = "applied"
         /\ procs[q].newExpiryMs > now) =>
            LET u == procs[q].req.uid IN
            /\ users[u].plan = "premium"
            /\ users[u].premiumExpiry = procs[q].newExpiryMs

----------------------------------------------------------------------------
(* a secret is configured and neither the header nor the query parameter   *)
(* of the trigger equals it                                                *)
Rejected(c) == c.needSecret /\ c.header # "match" /\ c.query # "match"

(* C39: sweeper trigger authentication.  A trigger that arrives while a    *)
(* cron secret is configured, with neither its x-cron-secret header nor    *)
(* its secret query parameter equal to it, is answered 401 at once and no  *)
(* account changes; any other trigger starts the sweep, and every step of  *)
(* a sweep, and every {ok, processed, downgrades} answer, belongs to a     *)
(* trigger that was not rejected.                                          *)
C39_TriggerAuthenticated ==
    [][\A p \in Procs :
         (procs'[p] # procs[p] /\ IsSweeper(procs'[p].kind)) =>
            IF Rejected(procs'[p].req.cron)
            THEN /\ Done(procs'[p]) /\ procs'[p].code = 401 /\ ~procs'[p].ok
                 /\ procs'[p].run = NoRun /\ ~procs'[p].wrote
                 /\ users' = users
            ELSE \/ procs'[p].pc \in SweepPcs
                 \/ Done(procs'[p]) /\ procs'[p].code = 200]_vars

(* A trigger with a wrong secret has been answered 401 over a store that   *)
(* holds a lapsed premium account, which is still premium.                 *)
C39_Witness ==
    \E p \in Procs :
        /\ Done(procs[p]) /\ IsSweeper(procs[p].kind) /\ procs[p].code = 401
        /\ procs[p].req.cron.header = "other" /\ procs[p].req.cron.query = "other"
        /\ nreq = 1
        /\ \E u \in Uids : Lapsed(users[u], now)

====
